---- MODULE Spec2Model ----
(***************************************************************************)
(* Model of the selint analysis plugins:                                   *)
(*   plugins/unnecessary_rules.py  - ArgExtractor, query_for_rule, main    *)
(*   plugins/global_macros.py      - SetFitter, GlobalMacroSuggestion, main*)
(* Strings are sequences of one-character strings; rule fields are kept    *)
(* as the blocks Mapper.rule_parser splits a rule into.                    *)
(***************************************************************************)
EXTENDS Integers, Sequences, FiniteSets, TLC

VARIABLES
    phase,      \* position of the modelled run
    tmpl,       \* ArgExtractor.rule, as blocks
    subst,      \* the placeholder values a concrete rule was built from
    rule,       \* the concrete rule handed to ArgExtractor.extract
    mres,       \* what ArgExtractor.match_rule returned
    res,        \* what ArgExtractor.extract returned / raised
    sf_d,       \* SetFitter.d: the available sets by name
    sf_order,   \* the order in which iteritems(self.d) yields the names
    sf_s,       \* the set handed to SetFitter.fit
    sf_ret,     \* what SetFitter.fit computed: ones, winner, part
    policy,     \* main's policy argument: whether it is a SourcePolicy, and
                \* the mapped rules (indices into Universe) it holds
    RULES_TUPLES,           \* plugin_conf.RULES_TUPLES
    RULE_IGNORE_PATHS,      \* plugin_conf.RULE_IGNORE_PATHS
    LOG,                    \* module global
    MAPPER,                 \* module global
    FULL_IGNORE_PATHS,      \* module global
    NON_IGNORED_MAPPING,    \* module global
    loop,       \* main's locals: t (index), placeholder_sub, rules, r (index)
    missing_rules,          \* main's local of the last rule processed
    output,     \* what main printed: one entry per "Rule: ... is missing",
                \* resp. one per "The following macros match these lines:"
    error,      \* the exception main ended with, if any
    macro_defs,             \* policy.macro_defs: file_defined and expansion
    macro_usages,           \* policy.macro_usages: macro name and file:line
    USAGES_IGNORE,          \* plugin_conf.USAGES_IGNORE
    SUGGESTION_THRESHOLD,   \* plugin_conf.SUGGESTION_THRESHOLD, <<num, den>>
    SUGGESTION_MAX_NO,      \* plugin_conf.SUGGESTION_MAX_NO
    macrousages_dict,       \* main's local: the usages by file:line
    suggestions,            \* main's local: the suggestions by filelines
    todo        \* "for r_up_to_class in policy.mapping.rules": the keys in the
                \* order the dict yields them, and the index of the next one

matchVars == <<tmpl, subst, rule, mres, res>>
fitVars == <<sf_d, sf_order, sf_s, sf_ret>>
checkVars == <<policy, RULES_TUPLES, RULE_IGNORE_PATHS, LOG, MAPPER,
               FULL_IGNORE_PATHS, NON_IGNORED_MAPPING, loop, missing_rules,
               output, error>>

suggestVars == <<macro_defs, macro_usages, USAGES_IGNORE, SUGGESTION_THRESHOLD,
                 SUGGESTION_MAX_NO, macrousages_dict, suggestions, todo>>

vars == <<phase, matchVars, fitVars, checkVars, suggestVars>>

(***************************************************************************)
(* Bounds                                                                  *)
(***************************************************************************)
\* Longest identifier (type name, placeholder value) of a concrete rule
MaxLen == 2

(***************************************************************************)
(* Strings                                                                 *)
(***************************************************************************)
\* The characters identifiers are built from in the model
Chars == {"a", "b"}

\* A missing value (Python None)
None == <<>>

\* Non-empty strings over Chars up to length n
Strs(n) == UNION {[1..k -> Chars] : k \in 1..n}

Idents == Strs(MaxLen)

\* The literal target "self"
SelfStr == <<"s", "e", "l", "f">>

\* VALID_ARG_R = r"[a-zA-Z0-9_-]+": the characters of the class
ArgChars == Chars \cup {"s", "e", "l", "f", "_", "-"}

\* The token "(" + VALID_ARG_R + ")" a placeholder is rewritten to
GroupTok == "([a-zA-Z0-9_-]+)"

\* ArgExtractor.placeholder_r = r"@@ARG[0-9]+@@": the placeholders of the model
Placeholders == {"@@ARG0@@", "@@ARG1@@", "@@ARG2@@"}

P0 == "@@ARG0@@"
P1 == "@@ARG1@@"
P2 == "@@ARG2@@"

\* x.strip("@").lower()
ArgName(p) ==
    CASE p = "@@ARG0@@" -> "arg0"
      [] p = "@@ARG1@@" -> "arg1"
      [] p = "@@ARG2@@" -> "arg2"

ArgNames == {ArgName(p) : p \in Placeholders}

\* policysource.mapping.AVRULES
AVRULES == {"allow", "auditallow", "dontaudit", "neverallow"}

\* policysource.mapping.TERULES
TERULES == {"type_transition"}

\* policysource.mapping.ONLY_MAP_RULES: the rule kinds the mapping holds
ONLY_MAP_RULES == AVRULES \cup TERULES

(***************************************************************************)
(* Python's re: a pattern is a sequence of literal characters and groups   *)
(* ([a-zA-Z0-9_-]+); match() anchors at the start of the string only and   *)
(* a group is greedy, giving back one character at a time.                 *)
(***************************************************************************)
NoMatch == [ok |-> FALSE, groups |-> <<>>]

\* Length of the longest prefix of s made of class characters
RECURSIVE ClassRun(_)
ClassRun(s) ==
    IF s = <<>> \/ Head(s) \notin ArgChars THEN 0 ELSE 1 + ClassRun(Tail(s))

RECURSIVE ReMatch(_, _)
RECURSIVE ReGroup(_, _, _)

\* The group takes k characters, then k-1, ... down to one
ReGroup(re, s, k) ==
    IF k = 0 THEN NoMatch
    ELSE LET r == ReMatch(Tail(re), SubSeq(s, k + 1, Len(s)))
         IN  IF r.ok
             THEN [ok |-> TRUE, groups |-> <<SubSeq(s, 1, k)>> \o r.groups]
             ELSE ReGroup(re, s, k - 1)

\* re.compile(blk).match(s)
ReMatch(re, s) ==
    IF re = <<>> THEN [ok |-> TRUE, groups |-> <<>>]
    ELSE IF Head(re) = GroupTok THEN ReGroup(re, s, ClassRun(s))
    ELSE IF s # <<>> /\ Head(s) = Head(re) THEN ReMatch(Tail(re), Tail(s))
    ELSE NoMatch

(***************************************************************************)
(* ArgExtractor                                                            *)
(***************************************************************************)
\* re.sub(placeholder_r, "(" + VALID_ARG_R + ")", blk)
RegexOf(blk) ==
    [i \in DOMAIN blk |-> IF blk[i] \in Placeholders THEN GroupTok ELSE blk[i]]

\* VALID_ARG_R in blk: the block is in regex_blocks_c
HasGroup(blk) == \E i \in DOMAIN blk : blk[i] = GroupTok

\* The blocks that are text (source, target, class, default type, object name)
TextBlocks(t) ==
    <<t.source, t.target, t.tclass>>
        \o (IF t.kind \in AVRULES THEN <<>> ELSE <<t.var>>)
        \o (IF t.nblocks = 6 THEN <<t.objname>> ELSE <<>>)

\* re.findall(placeholder_r, rule), in the order of the rule's text
RECURSIVE FindAll(_)
FindAll(blk) ==
    IF blk = <<>> THEN <<>>
    ELSE (IF Head(blk) \in Placeholders THEN <<ArgName(Head(blk))>> ELSE <<>>)
             \o FindAll(Tail(blk))

RECURSIVE Concat(_)
Concat(ss) == IF ss = <<>> THEN <<>> ELSE Head(ss) \o Concat(Tail(ss))

\* self.args
ArgsOf(t) == FindAll(Concat(TextBlocks(t)))

\* self.regex_perms
RegexPerms(t) ==
    IF t.kind \in AVRULES
    THEN IF \E i \in DOMAIN t.var : t.var[i] \in {"{", "}"}
         THEN {t.var[i] : i \in DOMAIN t.var} \ {"{", "}"}
         ELSE {t.var[1]}    \* set([blk]): a block without braces is one word
    ELSE None

\* One text block of match_rule: the regex when the block holds an argument,
\* the string otherwise. Returns whether it matched and what it appended.
MatchBlock(blk, text) ==
    LET re == RegexOf(blk)
    IN  IF HasGroup(re)
        THEN LET m == ReMatch(re, text)
             IN  IF m.ok THEN [ok |-> TRUE, app |-> <<m.groups[1]>>]
                 ELSE [ok |-> FALSE, app |-> <<>>]
        ELSE [ok |-> text = blk, app |-> <<>>]

\* MatchTarget without the "self" expansion: the literal is compared as is
MatchTarget_NoSelf(blk, src, tgt) ==
    LET re == RegexOf(blk)
    IN  IF HasGroup(re) THEN MatchBlock(blk, tgt)
        ELSE [ok |-> tgt = blk, app |-> <<>>]

\* Block 2 (target) of match_rule, with the "self" expansion
MatchTarget(blk, src, tgt) ==
    LET re == RegexOf(blk)
    IN  IF HasGroup(re) THEN MatchBlock(blk, tgt)
        ELSE IF blk = SelfStr /\ tgt # SelfStr
             THEN [ok |-> tgt = src, app |-> <<>>]
             ELSE [ok |-> tgt = blk, app |-> <<>>]

\* MatchPerms asking for the same set instead of a superset
MatchPerms_Equal(t, r) == RegexPerms(t) = r.perms

\* Block 4 of match_rule for an AV rule
MatchPerms(t, r) == RegexPerms(t) \subseteq r.perms

\* Block 5 (object name) of match_rule
MatchObjname(blk, name) ==
    LET re == RegexOf(blk)
    IN  IF HasGroup(re) THEN MatchBlock(blk, name)
        ELSE [ok |-> name = blk, app |-> <<>>]

MatchFail == [ok |-> FALSE, matches |-> <<>>]

\* ArgExtractor.match_rule
match_rule(t, r) ==
    LET objname == IF r.ruletype = "type_transition" /\ t.nblocks = 6
                   THEN r.filename ELSE None
        b1 == MatchBlock(t.source, r.source)
        b2 == MatchTarget(t.target, r.source, r.target)
        b3 == MatchBlock(t.tclass, r.tclass)
        b4 == IF r.ruletype \in AVRULES
              THEN [ok |-> MatchPerms(t, r), app |-> <<>>]
              ELSE MatchBlock(t.var, r.default)
        b5 == IF objname # None
              THEN MatchObjname(t.objname, objname)
              ELSE [ok |-> TRUE, app |-> <<>>]
    IN  IF r.ruletype = "type_transition" /\ t.nblocks = 6 /\ r.filename = None
        THEN MatchFail
        ELSE IF r.ruletype # "type_transition" /\ r.ruletype \notin AVRULES
        THEN MatchFail
        ELSE IF r.ruletype # t.kind THEN MatchFail
        ELSE IF ~b1.ok THEN MatchFail
        ELSE IF ~b2.ok THEN MatchFail
        ELSE IF ~b3.ok THEN MatchFail
        ELSE IF ~b4.ok THEN MatchFail
        ELSE IF ~b5.ok THEN MatchFail
        ELSE [ok |-> TRUE,
              matches |-> b1.app \o b2.app \o b3.app \o b4.app \o b5.app]

ValueError == [status |-> "ValueError", args |-> <<>>]

\* The loop of extract over matches[i..]: retdict so far is d
RECURSIVE ExtractFrom(_, _, _, _)
ExtractFrom(args, matches, i, d) ==
    IF i > Len(matches) THEN [status |-> "ok", args |-> d]
    ELSE IF args[i] \in DOMAIN d
         THEN IF d[args[i]] # matches[i] THEN ValueError
              ELSE ExtractFrom(args, matches, i + 1, d)
         ELSE ExtractFrom(args, matches, i + 1,
                          [a \in DOMAIN d \cup {args[i]} |->
                              IF a = args[i] THEN matches[i] ELSE d[a]])

\* ArgExtractor.extract
extract(t, r) ==
    LET m == match_rule(t, r)
    IN  IF m.ok /\ m.matches # <<>>
        THEN ExtractFrom(ArgsOf(t), m.matches, 1, <<>>)
        ELSE ValueError

\* The placeholders of a template
PlaceholdersOf(t) ==
    LET txt == Concat(TextBlocks(t))
    IN  {txt[i] : i \in DOMAIN txt} \cap Placeholders

\* A block with each placeholder replaced by its value
RECURSIVE SubstBlock(_, _)
SubstBlock(blk, sigma) ==
    IF blk = <<>> THEN <<>>
    ELSE (IF Head(blk) \in Placeholders THEN sigma[Head(blk)] ELSE <<Head(blk)>>)
             \o SubstBlock(Tail(blk), sigma)

(***************************************************************************)
(* Rules as text, the rule mapping and the compiled policy                 *)
(***************************************************************************)
\* A rule as text, split into blocks: "KIND SOURCE TARGET:CLASS VAR [NAME];"
AVText(k, s, t, c, p) ==
    [kind |-> k, source |-> s, target |-> t, tclass |-> c, var |-> p,
     objname |-> None, nblocks |-> 5]

TEText(s, t, c, d) ==
    [kind |-> "type_transition", source |-> s, target |-> t, tclass |-> c,
     var |-> d, objname |-> None, nblocks |-> 5]

NameTEText(s, t, c, d, n) ==
    [kind |-> "type_transition", source |-> s, target |-> t, tclass |-> c,
     var |-> d, objname |-> n, nblocks |-> 6]

\* The words of a permission block: blk.strip(" {};").split()
PermWords(blk) == {blk[i] : i \in DOMAIN blk} \ {"{", "}"}

\* Mapper.rule_factory: the parsed rule
rule_factory(txt) ==
    [rtype |-> txt.kind,
     up_to_class |-> <<txt.kind, txt.source, txt.target, txt.tclass>>,
     permset |-> IF txt.kind \in AVRULES THEN PermWords(txt.var) ELSE {},
     deftype |-> IF txt.kind \in AVRULES THEN None ELSE txt.var]

\* fileline.startswith(prefixes)
IsPrefix(p, s) == Len(p) <= Len(s) /\ SubSeq(s, 1, Len(p)) = p
StartsWithAny(s, prefixes) == \E p \in prefixes : IsPrefix(p, s)

TypeA == <<"a">>
TypeB == <<"b">>
TypeAB == <<"a", "b">>
ClassFile == <<"f">>
ClassProcess == <<"p">>

\* The mapped rules a policy of the model is made of (MappedRule: rule text
\* and the file:line it comes from); directory e is an ignored path
Universe ==
    << [rule |-> TEText(TypeA, TypeB, ClassProcess, TypeAB),
        fileline |-> <<"/", "d", ":", "1">>],
       [rule |-> AVText("allow", TypeA, TypeB, ClassFile, <<"execute">>),
        fileline |-> <<"/", "d", ":", "2">>],
       [rule |-> AVText("allow", TypeAB, TypeB, ClassFile, <<"entrypoint">>),
        fileline |-> <<"/", "d", ":", "3">>],
       [rule |-> AVText("allow", TypeA, TypeAB, ClassProcess, <<"transition">>),
        fileline |-> <<"/", "d", ":", "4">>],
       [rule |-> AVText("allow", TypeA, TypeB, ClassFile,
                        <<"{", "read", "getattr", "}">>),
        fileline |-> <<"/", "e", ":", "1">>],
       [rule |-> TEText(TypeA, TypeB, ClassProcess, TypeAB),
        fileline |-> <<"/", "e", ":", "2">>],
       [rule |-> TEText(TypeB, TypeB, ClassProcess, TypeA),
        fileline |-> <<"/", "d", ":", "5">>],
       [rule |-> NameTEText(TypeA, TypeB, ClassProcess, TypeB, <<"a">>),
        fileline |-> <<"/", "d", ":", "6">>],
       [rule |-> AVText("allow", TypeA, TypeB, ClassFile,
                        <<"{", "read", "open", "}">>),
        fileline |-> <<"/", "d", ":", "7">>],
       [rule |-> AVText("allow", TypeA, TypeB, ClassFile, <<"write">>),
        fileline |-> <<"/", "d", ":", "8">>],
       [rule |-> AVText("allow", TypeB, TypeB, ClassFile,
                        <<"{", "read", "open", "write", "}">>),
        fileline |-> <<"/", "d", ":", "7">>],
       [rule |-> AVText("allow", TypeA, TypeB, ClassFile, <<"open">>),
        fileline |-> <<"/", "e", ":", "3">>] >>

\* The rules the policies of the companion-rule check are made of, and those
\* of the macro suggestions
CheckRules == {i \in DOMAIN Universe : i <= 8}
SuggestRules == {i \in DOMAIN Universe : i > 8}

\* The indices of a set, ascending
RECURSIVE Ascending(_)
Ascending(S) ==
    IF S = {} THEN <<>>
    ELSE LET m == CHOOSE x \in S : \A y \in S : x <= y
         IN  <<m>> \o Ascending(S \ {m})

\* policy.mapping.rules: the mapped rules by rule-up-to-class
MappingKeys(pol) == {rule_factory(Universe[i].rule).up_to_class : i \in pol}

MappingRules(pol, rutc) ==
    LET idx == Ascending({i \in pol :
                   rule_factory(Universe[i].rule).up_to_class = rutc})
    IN  [k \in DOMAIN idx |-> Universe[idx[k]]]

\* The rule of the compiled policy a mapped rule ends up in: the AV rules of
\* one signature are merged, a type_transition stays as it is
Compiled(pol, i) ==
    LET txt == Universe[i].rule
        rls == MappingRules(pol, rule_factory(txt).up_to_class)
    IN  [ruletype |-> txt.kind, source |-> txt.source, target |-> txt.target,
         tclass |-> txt.tclass,
         perms |-> IF txt.kind \in AVRULES
                   THEN UNION {PermWords(rls[k].rule.var) : k \in DOMAIN rls}
                   ELSE {},
         default |-> IF txt.kind \in AVRULES THEN None ELSE txt.var,
         filename |-> txt.objname]

\* The rules of the compiled policy, each once
RECURSIVE Dedup(_)
Dedup(seq) ==
    IF seq = <<>> THEN <<>>
    ELSE LET init == Dedup(SubSeq(seq, 1, Len(seq) - 1))
             last == seq[Len(seq)]
         IN  IF \E k \in DOMAIN init : init[k] = last THEN init
             ELSE Append(init, last)

CompiledRules(pol) ==
    LET idx == Ascending(pol)
    IN  Dedup([k \in DOMAIN idx |-> Compiled(pol, idx[k])])

\* The permissions of a rule written out: "perm;" or "{ perm1 perm2 };"
RECURSIVE SetToSeq(_)
SetToSeq(S) ==
    IF S = {} THEN <<>>
    ELSE LET x == CHOOSE y \in S : TRUE
         IN  <<x>> \o SetToSeq(S \ {x})

PermBlock(perms) ==
    IF Cardinality(perms) = 1 THEN SetToSeq(perms)
    ELSE <<"{">> \o SetToSeq(perms) \o <<"}">>

\* str(x), as the blocks MAPPER.rule_factory parses it into
CompiledText(x) ==
    [kind |-> x.ruletype, source |-> x.source, target |-> x.target,
     tclass |-> x.tclass,
     var |-> IF x.ruletype \in AVRULES THEN PermBlock(x.perms) ELSE x.default,
     objname |-> x.filename,
     nblocks |-> IF x.filename = None THEN 5 ELSE 6]

(***************************************************************************)
(* query_for_rule                                                          *)
(***************************************************************************)
\* A regex criterion of the query: the pattern is searched in the name
ReSearch(re, s) ==
    \E k \in 0..Len(s) : ReMatch(re, SubSeq(s, k + 1, Len(s))).ok

\* One criterion: a regex when the field holds VALID_ARG_R, a name otherwise
Criterion(blk, text) ==
    LET re == RegexOf(blk)
    IN  IF HasGroup(re) THEN ReSearch(re, text) ELSE text = blk

\* TERuleQuery(...).results() for the rule r with regex fields
QueryResults(pol, r) ==
    LET xtarget == IF r.target = SelfStr THEN <<GroupTok>> ELSE r.target
        Hit(x) ==
            /\ x.ruletype = r.kind
            /\ Criterion(r.source, x.source)
            /\ Criterion(xtarget, x.target)
            /\ Criterion(r.tclass, x.tclass)
            /\ IF r.kind \in AVRULES
               THEN PermWords(r.var) \subseteq x.perms
               ELSE Criterion(r.var, x.default)
        found == SelectSeq(CompiledRules(pol), Hit)
    IN  IF r.target = SelfStr
        THEN SelectSeq(found, LAMBDA x : x.source = x.target)
        ELSE found

\* NON_IGNORED_MAPPING[x_str].append(fileline), creating the entry if needed
NimAppend(nim, x, fl) ==
    IF x \in DOMAIN nim
    THEN [nim EXCEPT ![x] = Append(nim[x], fl)]
    ELSE [y \in DOMAIN nim \cup {x} |-> IF y = x THEN <<fl>> ELSE nim[y]]

\* NON_IGNORED_MAPPING[x_str] = [fileline]
NimSet(nim, x, fl) ==
    [y \in DOMAIN nim \cup {x} |-> IF y = x THEN <<fl>> ELSE nim[y]]

\* NON_IGNORED_MAPPING.pop(x_str, None)
NimPop(nim, x) == [y \in DOMAIN nim \ {x} |-> nim[y]]

\* The non-ignored rules among rls[k..], in order
RECURSIVE NonIgnored(_, _, _)
NonIgnored(rls, k, ignore) ==
    IF k > Len(rls) THEN <<>>
    ELSE (IF StartsWithAny(rls[k].fileline, ignore) THEN <<>> ELSE <<rls[k]>>)
             \o NonIgnored(rls, k + 1, ignore)

RECURSIVE NimAppendAll(_, _, _)
NimAppendAll(nim, x, rls) ==
    IF rls = <<>> THEN nim
    ELSE NimAppendAll(NimAppend(nim, x, Head(rls).fileline), x, Tail(rls))

\* One round of "for x in results" of query_for_rule (lines 92-134)
FilterOne(pol, ignore, acc, x) ==
    LET rule_ == rule_factory(CompiledText(x))
        rls == MappingRules(pol, rule_.up_to_class)
        keep == NonIgnored(rls, 1, ignore)
    IN  IF Len(rls) = 1
        THEN IF keep # <<>>
             THEN [results |-> Append(acc.results, x),
                   nim |-> NimSet(acc.nim, x, rls[1].fileline)]
             ELSE acc
        ELSE IF rule_.rtype \in AVRULES
        THEN LET tmpset == UNION {PermWords(keep[k].rule.var) : k \in DOMAIN keep}
                 nim2 == NimAppendAll(acc.nim, x, keep)
             IN  IF rule_.permset \subseteq tmpset
                 THEN [results |-> Append(acc.results, x), nim |-> nim2]
                 ELSE [results |-> acc.results, nim |-> NimPop(nim2, x)]
        ELSE IF rule_.rtype \in TERULES
        THEN [results |-> acc.results \o [k \in DOMAIN keep |-> x],
              nim |-> NimAppendAll(acc.nim, x, keep)]
        ELSE acc

RECURSIVE FilterAll(_, _, _, _)
FilterAll(pol, ignore, acc, results) ==
    IF results = <<>> THEN acc
    ELSE FilterAll(pol, ignore, FilterOne(pol, ignore, acc, Head(results)),
                   Tail(results))

\* query_for_rule(policy, r): the filtered results (None for an unsupported
\* rule) and NON_IGNORED_MAPPING afterwards
query_for_rule(pol, ignore, nim, r) ==
    IF r.kind \in AVRULES \cup TERULES
    THEN FilterAll(pol, ignore, [results |-> <<>>, nim |-> nim],
                   QueryResults(pol, r))
    ELSE [results |-> None, nim |-> nim]

(***************************************************************************)
(* main of unnecessary_rules                                               *)
(***************************************************************************)
\* rule_w_placeholder_r.match(t[0])
HasPlaceholder(txt) ==
    \E blk \in {txt.source, txt.target, txt.tclass, txt.var, txt.objname} :
        \E i \in DOMAIN blk : blk[i] \in Placeholders

\* rule.replace("@@ARGn@@", v) for every argument of args, on one block
RECURSIVE ReplaceArgs(_, _)
ReplaceArgs(blk, args) ==
    IF blk = <<>> THEN <<>>
    ELSE (IF Head(blk) \in Placeholders /\ ArgName(Head(blk)) \in DOMAIN args
          THEN args[ArgName(Head(blk))] ELSE <<Head(blk)>>)
             \o ReplaceArgs(Tail(blk), args)

\* substitute_args(rule, args)
substitute_args(txt, args) ==
    [txt EXCEPT !.source = ReplaceArgs(txt.source, args),
                !.target = ReplaceArgs(txt.target, args),
                !.tclass = ReplaceArgs(txt.tclass, args),
                !.var = ReplaceArgs(txt.var, args),
                !.objname = ReplaceArgs(txt.objname, args)]

\* nec_rule in policy.mapping.rules[nrfutc]: the rule text is among the
\* mapped rules of its signature
InMapped(nec_rule, rls) == \E k \in DOMAIN rls : rls[k].rule = nec_rule

\* A companion reported only when no rule of its signature is mapped
CheckCompanion_KeyOnly(pol, nec_rule) ==
    IF rule_factory(nec_rule).up_to_class \in MappingKeys(pol) THEN <<>>
    ELSE <<[rule |-> nec_rule, annotated |-> FALSE, missing |-> {}]>>

\* The check annotating a rule with all its permissions
CheckCompanion_AllPerms(pol, nec_rule) ==
    LET nec_rule_full == rule_factory(nec_rule)
        nrfutc == nec_rule_full.up_to_class
        rls == MappingRules(pol, nrfutc)
        permset == UNION {rule_factory(rls[k].rule).permset : k \in DOMAIN rls}
    IN  IF nrfutc \in MappingKeys(pol)
        THEN IF nec_rule_full.rtype \in AVRULES
             THEN IF ~(nec_rule_full.permset \subseteq permset)
                  THEN <<[rule |-> nec_rule, annotated |-> TRUE,
                          missing |-> nec_rule_full.permset]>>
                  ELSE <<>>
             ELSE IF nec_rule_full.rtype \in TERULES /\ ~InMapped(nec_rule, rls)
                  THEN <<[rule |-> nec_rule, annotated |-> FALSE, missing |-> {}]>>
                  ELSE <<>>
        ELSE <<[rule |-> nec_rule, annotated |-> FALSE, missing |-> {}]>>

\* Lines 228-256 of main: what one necessary rule adds to missing_rules
CheckCompanion(pol, nec_rule) ==
    LET nec_rule_full == rule_factory(nec_rule)
        nrfutc == nec_rule_full.up_to_class
        rls == MappingRules(pol, nrfutc)
        permset == UNION {rule_factory(rls[k].rule).permset : k \in DOMAIN rls}
    IN  IF nrfutc \in MappingKeys(pol)
        THEN IF nec_rule_full.rtype \in AVRULES
             THEN IF ~(nec_rule_full.permset \subseteq permset)
                  THEN <<[rule |-> nec_rule, annotated |-> TRUE,
                          missing |-> nec_rule_full.permset \ permset]>>
                  ELSE <<>>
             ELSE IF nec_rule_full.rtype \in TERULES /\ ~InMapped(nec_rule, rls)
                  THEN <<[rule |-> nec_rule, annotated |-> FALSE, missing |-> {}]>>
                  ELSE <<>>
        ELSE <<[rule |-> nec_rule, annotated |-> FALSE, missing |-> {}]>>

\* The loop over the companions left at the first unsupported one
RECURSIVE CheckCompanions_StopAtUnsupported(_, _, _, _, _)
CheckCompanions_StopAtUnsupported(pol, t, k, placeholder_sub, args) ==
    IF k > Len(t) \/ t[k].kind \notin ONLY_MAP_RULES THEN <<>>
    ELSE CheckCompanion(pol, IF placeholder_sub
                             THEN substitute_args(t[k], args)
                             ELSE t[k])
             \o CheckCompanions_StopAtUnsupported(pol, t, k + 1, placeholder_sub, args)

\* "for each_rule in t[1:]" from index k on: the missing rules found
RECURSIVE CheckCompanions(_, _, _, _, _)
CheckCompanions(pol, t, k, placeholder_sub, args) ==
    IF k > Len(t) THEN <<>>
    ELSE (IF t[k].kind \notin ONLY_MAP_RULES THEN <<>>
          ELSE CheckCompanion(pol, IF placeholder_sub
                                   THEN substitute_args(t[k], args)
                                   ELSE t[k]))
             \o CheckCompanions(pol, t, k + 1, placeholder_sub, args)

(***************************************************************************)
(* SetFitter                                                               *)
(***************************************************************************)
\* SetFitter.RichSet.__init__; the score is kept as <<numerator, denominator>>
RichSet(name, values) ==
    [name |-> name, values |-> values, tally |-> [e \in values |-> 0],
     nonzero |-> 0, score |-> <<0, 1>>]

\* RichSet.incr counting an element whether or not the set holds it
incr_Unguarded(rs, elem) ==
    [rs EXCEPT !.nonzero = rs.nonzero + 1,
               !.score = <<rs.nonzero + 1, Cardinality(DOMAIN rs.tally)>>]

\* SetFitter.RichSet.incr
incr(rs, elem) ==
    IF elem \in DOMAIN rs.tally
    THEN IF rs.tally[elem] = 0
         THEN [rs EXCEPT !.nonzero = rs.nonzero + 1,
                         !.score = <<rs.nonzero + 1, Cardinality(DOMAIN rs.tally)>>,
                         !.tally[elem] = rs.tally[elem] + 1]
         ELSE [rs EXCEPT !.tally[elem] = rs.tally[elem] + 1]
    ELSE rs

\* "for elem in s: each.incr(elem)" for one rich set
RECURSIVE IncrAll(_, _)
IncrAll(rs, s) ==
    IF s = {} THEN rs
    ELSE LET elem == CHOOSE e \in s : TRUE
         IN  IncrAll(incr(rs, elem), s \ {elem})

\* x.score == 1
ScoreIsOne(rs) == rs.score[1] = rs.score[2]

\* a.score < b.score (RichSet.__lt__)
ScoreLess(a, b) == a.score[1] * b.score[2] < b.score[1] * a.score[2]

\* itertools.combinations(seq, k), in the order it yields them
RECURSIVE combinations(_, _)
combinations(seq, k) ==
    IF k = 0 THEN <<<<>>>>
    ELSE IF Len(seq) < k THEN <<>>
    ELSE LET with == combinations(Tail(seq), k - 1)
         IN  [i \in DOMAIN with |-> <<Head(seq)>> \o with[i]]
                 \o combinations(Tail(seq), k)

\* "for i in range(1, len(ones) + 1): combinations.extend(...)" from size i on
RECURSIVE AllCombinations(_, _)
AllCombinations(ones, i) ==
    IF i > Len(ones) THEN <<>>
    ELSE combinations(ones, i) \o AllCombinations(ones, i + 1)

Range(seq) == {seq[i] : i \in DOMAIN seq}

\* c_set: the union of the values of a combination
CSet(c) == UNION {c[i].values : i \in DOMAIN c}

\* extra_dim: the combinations by len(extra), each list in enumeration order
ExtraDim(combs, s) ==
    LET extra(c) == Cardinality(s \ CSet(c))
    IN  [n \in {extra(combs[i]) : i \in DOMAIN combs} |->
            SelectSeq(combs, LAMBDA c : extra(c) = n)]

Min(S) == CHOOSE x \in S : \A y \in S : x <= y
Max(S) == CHOOSE x \in S : \A y \in S : x >= y

\* min(lst, key=len): the first of the shortest
MinByLen(lst) ==
    LET l == Min({Len(lst[i]) : i \in DOMAIN lst})
    IN  lst[Min({i \in DOMAIN lst : Len(lst[i]) = l})]

\* The winner taken as the longest of the combinations that leave least
Winner_Longest(extra_dim) ==
    IF DOMAIN extra_dim # {}
    THEN LET lst == extra_dim[Min(DOMAIN extra_dim)]
             l == Max({Len(lst[i]) : i \in DOMAIN lst})
         IN  lst[Min({i \in DOMAIN lst : Len(lst[i]) = l})]
    ELSE <<>>

\* The winner taken among the combinations that leave most
Winner_MostExtra(extra_dim) ==
    IF DOMAIN extra_dim # {}
    THEN MinByLen(extra_dim[Max(DOMAIN extra_dim)])
    ELSE <<>>

\* "if extra_dim: m = min(extra_dim); winner = min(extra_dim[m], key=len)"
Winner(extra_dim) ==
    IF DOMAIN extra_dim # {}
    THEN MinByLen(extra_dim[Min(DOMAIN extra_dim)])
    ELSE <<>>

\* SetFitter.fit; ones is the local list of the sets that score 1
fit(d, order, s) ==
    LET fresh == [i \in DOMAIN order |-> RichSet(order[i], d[order[i]])]
        rich_sets == [i \in DOMAIN fresh |-> IncrAll(fresh[i], s)]
        ones == SelectSeq(rich_sets, LAMBDA x : ScoreIsOne(x))
        part == SelectSeq(rich_sets, LAMBDA x : ~ScoreIsOne(x))
        combs == AllCombinations(ones, 1)
        winner == Winner(ExtraDim(combs, s))
    IN  [ones |-> ones, winner |-> Range(winner), part |-> part]

(***************************************************************************)
(* ArgExtractor on its own: a template is compiled, then extract is called *)
(* on a concrete rule, either one obtained from the template by            *)
(* substituting values for the placeholders or any rule of the policy.     *)
(***************************************************************************)
\* Source and target fields of the AV templates
SrcShapes == {<<P0>>, <<P1>>, <<"a">>, <<P0, "a">>, <<"b", P0>>, <<P0, P1>>}
TgtShapes == {<<P0>>, <<P1>>, <<"a">>, <<P0, "b">>, <<P1, P0>>, SelfStr}
PermBlocks == {<<"r">>, <<"{", "r", "w", "}">>}
Perms == {"r", "w", "x"}
FileClass == <<"f">>

AVTemplates ==
    {[kind |-> "allow", source |-> s, target |-> t, tclass |-> FileClass,
      var |-> p, objname |-> None, nblocks |-> 5] :
        s \in SrcShapes, t \in TgtShapes, p \in PermBlocks}

TETemplates ==
    {[kind |-> "type_transition", source |-> s, target |-> t,
      tclass |-> FileClass, var |-> d, objname |-> o[2], nblocks |-> o[1]] :
        s \in {<<P0>>, <<"a">>}, t \in {<<P1>>, <<"a">>},
        d \in {<<P2>>, <<P0>>, <<"a">>},
        o \in {<<5, None>>, <<6, <<P2>>>>, <<6, <<"a">>>>, <<6, <<P1>>>>}}

Templates == AVTemplates \cup TETemplates

\* The concrete rule a template stands for under sigma
Instance(t, sigma) ==
    [ruletype |-> t.kind,
     source   |-> SubstBlock(t.source, sigma),
     target   |-> SubstBlock(t.target, sigma),
     tclass   |-> SubstBlock(t.tclass, sigma),
     perms    |-> IF t.kind \in AVRULES THEN RegexPerms(t) ELSE {},
     default  |-> IF t.kind \in AVRULES THEN None ELSE SubstBlock(t.var, sigma),
     filename |-> IF t.nblocks = 6 THEN SubstBlock(t.objname, sigma) ELSE None]

\* The names of the types of a policy: they may be longer than the values
\* substituted for a placeholder
TypeNames == Strs(MaxLen + 1)

\* The rules of a policy: setools rule objects
AVRuleSet ==
    {[ruletype |-> k, source |-> s, target |-> t, tclass |-> FileClass,
      perms |-> p, default |-> None, filename |-> None] :
        k \in {"allow"}, s \in TypeNames, t \in Idents \cup {SelfStr},
        p \in SUBSET Perms}

TERuleSet ==
    {[ruletype |-> "type_transition", source |-> s, target |-> t,
      tclass |-> FileClass, perms |-> {}, default |-> d, filename |-> f] :
        s \in TypeNames, t \in Strs(1), d \in Idents,
        f \in {None, <<"a">>, <<"b">>}}

\* Rules of other kinds and classes
OtherRuleSet ==
    {[ruletype |-> k, source |-> <<"a">>, target |-> <<"a">>, tclass |-> c,
      perms |-> {"r", "w"}, default |-> <<"a">>, filename |-> None] :
        k \in {"allow", "neverallow", "type_transition", "type_change"},
        c \in {FileClass, <<"p">>}}

RulesFor(t) ==
    (IF t.kind \in AVRULES THEN AVRuleSet ELSE TERuleSet) \cup OtherRuleSet

NoRule == [ruletype |-> "none"]
NoSubst == <<>>

\* The variables of the other components while one runs on its own
MatchIdle ==
    /\ tmpl = [kind |-> "none"]
    /\ subst = NoSubst
    /\ rule = NoRule
    /\ mres = MatchFail
    /\ res = ValueError

FitIdle ==
    /\ sf_d = <<>>
    /\ sf_order = <<>>
    /\ sf_s = {}
    /\ sf_ret = [ones |-> <<>>, winner |-> {}, part |-> <<>>]

CheckIdle ==
    /\ policy = [valid |-> FALSE, rules |-> {}]
    /\ RULES_TUPLES = <<>>
    /\ RULE_IGNORE_PATHS = {}
    /\ LOG = "None"
    /\ MAPPER = "None"
    /\ FULL_IGNORE_PATHS = "None"
    /\ NON_IGNORED_MAPPING = <<>>
    /\ loop = [t |-> 0, placeholder_sub |-> FALSE, rules |-> <<>>, r |-> 0]
    /\ missing_rules = <<>>
    /\ output = <<>>
    /\ error = "None"

SuggestIdle ==
    /\ macro_defs = <<>>
    /\ macro_usages = {}
    /\ USAGES_IGNORE = {}
    /\ SUGGESTION_THRESHOLD = <<1, 1>>
    /\ SUGGESTION_MAX_NO = 0
    /\ macrousages_dict = <<>>
    /\ suggestions = <<>>
    /\ todo = [keys |-> <<>>, next |-> 1]

MatchInit ==
    /\ FitIdle
    /\ CheckIdle
    /\ SuggestIdle
    /\ phase = "compiled"
    /\ tmpl \in Templates
    /\ subst = NoSubst
    /\ rule = NoRule
    /\ mres = MatchFail
    /\ res = ValueError

\* e.extract(R) for R obtained from the template by substitution
ExtractInstance ==
    /\ phase = "compiled"
    /\ \E sigma \in [PlaceholdersOf(tmpl) -> Idents] :
          /\ subst' = sigma
          /\ rule' = Instance(tmpl, sigma)
    /\ mres' = match_rule(tmpl, rule')
    /\ res' = extract(tmpl, rule')
    /\ phase' = "instance"
    /\ UNCHANGED <<tmpl, fitVars, checkVars, suggestVars>>

\* e.extract(r) for any rule r
ExtractRule ==
    /\ phase = "compiled"
    /\ \E r \in RulesFor(tmpl) : rule' = r
    /\ mres' = match_rule(tmpl, rule')
    /\ res' = extract(tmpl, rule')
    /\ phase' = "extracted"
    /\ UNCHANGED <<tmpl, subst, fitVars, checkVars, suggestVars>>

MatchNext == ExtractInstance \/ ExtractRule

SpecMatch == MatchInit /\ [][MatchNext]_vars

(***************************************************************************)
(* SetFitter on its own: a fitter is built on a catalog, then fit is       *)
(* called on a set.                                                        *)
(***************************************************************************)
FitPerms == {"read", "write", "open"}
MacroNames == {"r_file", "w_file", "rw_file"}

\* The orders in which a dict with these keys can yield them
Orders(names) ==
    {o \in [1..Cardinality(names) -> names] : Range(o) = names}

FitInit ==
    /\ MatchIdle
    /\ CheckIdle
    /\ SuggestIdle
    /\ phase = "fitter"
    /\ sf_d \in [MacroNames -> SUBSET FitPerms]
    /\ sf_order \in Orders(MacroNames)
    /\ sf_s = {}
    /\ sf_ret = [ones |-> <<>>, winner |-> {}, part |-> <<>>]

\* sf.fit(s)
Fit ==
    /\ phase = "fitter"
    /\ \E s \in SUBSET FitPerms :
          /\ sf_s' = s
          /\ sf_ret' = fit(sf_d, sf_order, s)
    /\ phase' = "fitted"
    /\ UNCHANGED <<sf_d, sf_order, matchVars, checkVars, suggestVars>>

FitNext == Fit

SpecFit == FitInit /\ [][FitNext]_vars

(***************************************************************************)
(* The companion-rule check: main of unnecessary_rules runs over a policy  *)
(* and a configuration, one tuple and one found rule at a time.            *)
(***************************************************************************)
\* FULL_BASE_DIR, and the directory the ignored rules of the model come from
BaseDir == <<"/">>
IgnoredDir == <<"e">>

\* os.path.join(a, b) for a relative b
PathJoin(a, b) == IF a[Len(a)] = "/" THEN a \o b ELSE a \o <<"/">> \o b

\* The tuple of plugins/config/unnecessary_rules.py
TupDomainTrans ==
    << TEText(<<P0>>, <<P1>>, ClassProcess, <<P2>>),
       AVText("allow", <<P0>>, <<P1>>, ClassFile, <<"execute">>),
       AVText("allow", <<P2>>, <<P1>>, ClassFile, <<"entrypoint">>),
       AVText("allow", <<P0>>, <<P2>>, ClassProcess, <<"transition">>) >>

\* A trigger that names one argument twice
TupSameArg ==
    << TEText(<<P0>>, <<P0>>, ClassProcess, <<P1>>),
       AVText("allow", <<P0>>, <<P1>>, ClassProcess, <<"transition">>) >>

\* A trigger without placeholders
TupLiteral ==
    << AVText("allow", TypeA, TypeB, ClassFile, <<"execute">>),
       AVText("allow", TypeAB, TypeB, ClassFile, <<"entrypoint">>) >>

\* A rule of a kind the mapping does not hold
UnsupportedText ==
    [kind |-> "type_change", source |-> TypeA, target |-> TypeB,
     tclass |-> ClassProcess, var |-> TypeAB, objname |-> None, nblocks |-> 5]

TupUnsupportedTrigger ==
    << UnsupportedText,
       AVText("allow", TypeAB, TypeB, ClassFile, <<"entrypoint">>) >>

\* An unsupported companion and a type_transition companion
TupUnsupportedCompanion ==
    << AVText("allow", <<P0>>, <<P1>>, ClassFile, <<"execute">>),
       UnsupportedText,
       TEText(<<P0>>, <<P1>>, ClassProcess, TypeAB) >>

TupSingle == << AVText("allow", TypeA, TypeB, ClassFile, <<"execute">>) >>

\* A companion with two permissions
TupTwoPerms ==
    << TEText(TypeB, TypeB, ClassProcess, <<P0>>),
       AVText("allow", <<P0>>, TypeB, ClassFile, <<"{", "execute", "read", "}">>) >>

Tuples == {TupDomainTrans, TupSameArg, TupLiteral, TupUnsupportedTrigger,
           TupUnsupportedCompanion, TupSingle, TupTwoPerms}

\* The configurations: one or two tuples
TupleConfigs == {<<t>> : t \in Tuples} \cup {<<t, u>> : t \in Tuples, u \in Tuples}

CheckInit ==
    /\ FitIdle
    /\ MatchIdle
    /\ SuggestIdle
    /\ phase = "call"
    /\ policy \in {[valid |-> TRUE, rules |-> pol] : pol \in SUBSET CheckRules}
                   \cup {[valid |-> FALSE, rules |-> {}]}
    /\ RULES_TUPLES \in TupleConfigs
    /\ RULE_IGNORE_PATHS \in {{}, {IgnoredDir}}
    /\ LOG = "None"
    /\ MAPPER = "None"
    /\ FULL_IGNORE_PATHS = "None"
    /\ NON_IGNORED_MAPPING = <<>>
    /\ loop = [t |-> 0, placeholder_sub |-> FALSE, rules |-> <<>>, r |-> 0]
    /\ missing_rules = <<>>
    /\ output = <<>>
    /\ error = "None"

\* main setting the globals before it checks the policy
Main_Enter_GlobalsFirst ==
    /\ phase = "call"
    /\ LOG' = "logger"
    /\ FULL_IGNORE_PATHS' = {PathJoin(BaseDir, q) : q \in RULE_IGNORE_PATHS}
    /\ MAPPER' = "Mapper"
    /\ IF ~policy.valid
       THEN /\ phase' = "raised"
            /\ error' = "ValueError: Invalid policy"
            /\ UNCHANGED loop
       ELSE /\ phase' = "tuples"
            /\ loop' = [loop EXCEPT !.t = 1]
            /\ UNCHANGED error
    /\ UNCHANGED <<policy, RULES_TUPLES, RULE_IGNORE_PATHS, NON_IGNORED_MAPPING,
                   missing_rules, output, matchVars, fitVars, suggestVars>>

\* Lines 157-181 of main: the policy is checked, the globals are set
Main_Enter ==
    /\ phase = "call"
    /\ IF ~policy.valid
       THEN /\ phase' = "raised"
            /\ error' = "ValueError: Invalid policy"
            /\ UNCHANGED <<LOG, MAPPER, FULL_IGNORE_PATHS, loop>>
       ELSE /\ phase' = "tuples"
            /\ LOG' = "logger"
            /\ FULL_IGNORE_PATHS' = {PathJoin(BaseDir, q) : q \in RULE_IGNORE_PATHS}
            /\ MAPPER' = "Mapper"
            /\ loop' = [loop EXCEPT !.t = 1]
            /\ UNCHANGED error
    /\ UNCHANGED <<policy, RULES_TUPLES, RULE_IGNORE_PATHS, NON_IGNORED_MAPPING,
                   missing_rules, output, matchVars, fitVars, suggestVars>>

\* Lines 183-211 of main: the head of "for t in plugin_conf.RULES_TUPLES"
Main_Tuple ==
    /\ phase = "tuples"
    /\ loop.t <= Len(RULES_TUPLES)
    /\ LET t == RULES_TUPLES[loop.t]
           skip == [loop EXCEPT !.t = loop.t + 1, !.placeholder_sub = FALSE]
           q == query_for_rule(policy.rules, FULL_IGNORE_PATHS,
                               NON_IGNORED_MAPPING, t[1])
       IN  IF Len(t) < 2 \/ t[1].kind \notin ONLY_MAP_RULES
           THEN /\ loop' = skip
                /\ UNCHANGED <<phase, tmpl, NON_IGNORED_MAPPING>>
           ELSE IF HasPlaceholder(t[1])
           THEN /\ tmpl' = t[1]
                /\ NON_IGNORED_MAPPING' = q.nim
                /\ IF q.results = <<>>
                   THEN /\ loop' = [skip EXCEPT !.placeholder_sub = TRUE]
                        /\ UNCHANGED phase
                   ELSE /\ loop' = [loop EXCEPT !.placeholder_sub = TRUE,
                                                !.rules = q.results, !.r = 1]
                        /\ phase' = "rules"
           ELSE /\ loop' = [loop EXCEPT !.placeholder_sub = FALSE,
                                        !.rules = <<t[1]>>, !.r = 1]
                /\ phase' = "rules"
                /\ UNCHANGED <<tmpl, NON_IGNORED_MAPPING>>
    /\ UNCHANGED <<policy, RULES_TUPLES, RULE_IGNORE_PATHS, LOG, MAPPER,
                   FULL_IGNORE_PATHS, missing_rules, output, error,
                   subst, rule, mres, res, fitVars, suggestVars>>

\* Lines 213-262 of main: one round of "for r in rules"
Main_Rule ==
    /\ phase = "rules"
    /\ LET t == RULES_TUPLES[loop.t]
           r == loop.rules[loop.r]
           args == extract(tmpl, r)
           found == CheckCompanions(policy.rules, t, 2, loop.placeholder_sub,
                                    args.args)
           next == IF loop.r < Len(loop.rules)
                   THEN [loop EXCEPT !.r = loop.r + 1]
                   ELSE [loop EXCEPT !.t = loop.t + 1]
       IN  /\ IF loop.placeholder_sub
              THEN /\ rule' = r
                   /\ mres' = match_rule(tmpl, r)
                   /\ res' = args
              ELSE UNCHANGED <<rule, mres, res>>
           /\ IF loop.placeholder_sub /\ args.status = "ValueError"
              THEN /\ phase' = "raised"
                   /\ error' = "ValueError: Rule does not match ArgExtractor expression"
                   /\ missing_rules' = <<>>
                   /\ UNCHANGED <<loop, output>>
              ELSE /\ missing_rules' = found
                   /\ output' = IF found # <<>>
                                 THEN Append(output,
                                        [rule |-> IF loop.placeholder_sub
                                                  THEN CompiledText(r) ELSE r,
                                         missing |-> found])
                                 ELSE output
                   /\ loop' = next
                   /\ phase' = IF loop.r < Len(loop.rules) THEN "rules" ELSE "tuples"
                   /\ UNCHANGED error
    /\ UNCHANGED <<policy, RULES_TUPLES, RULE_IGNORE_PATHS, LOG, MAPPER,
                   FULL_IGNORE_PATHS, NON_IGNORED_MAPPING, tmpl, subst, fitVars,
                   suggestVars>>

\* main returns once every tuple is done
Main_Return ==
    /\ phase = "tuples"
    /\ loop.t > Len(RULES_TUPLES)
    /\ phase' = "returned"
    /\ UNCHANGED <<matchVars, fitVars, checkVars, suggestVars>>

CheckNext == Main_Enter \/ Main_Tuple \/ Main_Rule \/ Main_Return

SpecCheck == CheckInit /\ [][CheckNext]_vars

(***************************************************************************)
(* main of global_macros                                                   *)
(***************************************************************************)
\* plugin_conf.SUPPORTED_RULE_TYPES
SUPPORTED_RULE_TYPES == {"allow"}

\* file_defined.endswith(u"global_macros")
IsGlobal(defs, name) == defs[name].file_defined = "global_macros"

\* Lines 88-95: the expansions of the global macros, as sets of words
MacrosetDict(defs) ==
    [n \in {x \in DOMAIN defs : IsGlobal(defs, x)} |->
        {defs[n].exp[i] : i \in DOMAIN defs[n].exp} \ {"{", "}", "{}"}]

\* Lines 97-103: the names of the macros used, by file:line
MacrousagesDict(usages) ==
    [fl \in {u.fileline : u \in usages} |->
        {u.name : u \in {v \in usages : v.fileline = fl}}]

\* A suggestion built with the two permission sets taken for one another
GlobalMacroSuggestion_Swapped(macro_name, perm_set, rules, score, rutc, permset) ==
    [name |-> macro_name, macro_perms |-> permset, score |-> score,
     filelines |-> {rules[k].fileline : k \in DOMAIN rules},
     applies_to |-> rutc, original_permset |-> perm_set]

\* GlobalMacroSuggestion.__init__
GlobalMacroSuggestion(macro_name, perm_set, rules, score, rutc, permset) ==
    [name |-> macro_name, macro_perms |-> perm_set, score |-> score,
     filelines |-> {rules[k].fileline : k \in DOMAIN rules},
     applies_to |-> rutc, original_permset |-> permset]

\* GlobalMacroSuggestion.__eq__
SameSuggestion(g, h) == g.name = h.name /\ g.filelines = h.filelines

\* Lines 174-177 and 205-208: the suggestion is filed under its filelines
AddSuggestion(sugs, g) ==
    IF g.filelines \notin DOMAIN sugs
    THEN [k \in DOMAIN sugs \cup {g.filelines} |->
            IF k = g.filelines THEN <<g>> ELSE sugs[k]]
    ELSE IF \E i \in DOMAIN sugs[g.filelines] :
                SameSuggestion(g, sugs[g.filelines][i])
    THEN sugs
    ELSE [sugs EXCEPT ![g.filelines] = Append(sugs[g.filelines], g)]

RECURSIVE AddSuggestions(_, _)
AddSuggestions(sugs, gs) ==
    IF gs = <<>> THEN sugs
    ELSE AddSuggestions(AddSuggestion(sugs, Head(gs)), Tail(gs))

\* The winner with nothing taken out of it
AlreadyUsed_None(winner, macros_at_line) == {}

\* Lines 155-156: the macros of the winner that are used at the line
AlreadyUsed(winner, macros_at_line) ==
    {x \in winner : x.name \in macros_at_line}

\* The loop over the winner without the test for macros of other files
RECURSIVE WinnerLoop_AnyFamily(_, _, _, _, _)
WinnerLoop_AnyFamily(defs, usages, winner, filtered_rules, k) ==
    IF k > Len(filtered_rules)
    THEN [suggest_this |-> TRUE, winner |-> winner]
    ELSE IF filtered_rules[k].fileline \notin DOMAIN usages
    THEN WinnerLoop_AnyFamily(defs, usages, winner, filtered_rules, k + 1)
    ELSE LET macros_at_line == usages[filtered_rules[k].fileline]
             left == winner \ AlreadyUsed(winner, macros_at_line)
         IN  IF left = {}
             THEN [suggest_this |-> FALSE, winner |-> left]
             ELSE WinnerLoop_AnyFamily(defs, usages, left, filtered_rules, k + 1)

\* Lines 139-164: "for r in filtered_rules" over the winner, from rule k on
RECURSIVE WinnerLoop(_, _, _, _, _)
WinnerLoop(defs, usages, winner, filtered_rules, k) ==
    IF k > Len(filtered_rules)
    THEN [suggest_this |-> TRUE, winner |-> winner]
    ELSE IF filtered_rules[k].fileline \notin DOMAIN usages
    THEN WinnerLoop(defs, usages, winner, filtered_rules, k + 1)
    ELSE LET macros_at_line == usages[filtered_rules[k].fileline]
             left == winner \ AlreadyUsed(winner, macros_at_line)
         IN  IF \E n \in macros_at_line : ~IsGlobal(defs, n)
             THEN [suggest_this |-> FALSE, winner |-> winner]
             ELSE IF left = {}
             THEN [suggest_this |-> FALSE, winner |-> left]
             ELSE WinnerLoop(defs, usages, left, filtered_rules, k + 1)

\* The test letting the macros of other files pass
PartAllowed_GlobalOnly(usages, filtered_rules) ==
    \A k \in DOMAIN filtered_rules :
        filtered_rules[k].fileline \in DOMAIN usages =>
            \A n \in usages[filtered_rules[k].fileline] : ~IsGlobal(macro_defs, n)

\* Lines 183-191: no macro is used at any line of the rules
PartAllowed(usages, filtered_rules) ==
    \A k \in DOMAIN filtered_rules :
        filtered_rules[k].fileline \notin DOMAIN usages

\* a.score >= b for scores kept as <<numerator, denominator>>
ScoreGeq(a, b) == a[1] * b[2] >= b[1] * a[2]

\* sorted(seq, reverse=True): descending by score, equal scores in the
\* order they come in
RECURSIVE SortedReverse(_)
SortedReverse(seq) ==
    IF seq = <<>> THEN <<>>
    ELSE LET top == CHOOSE i \in DOMAIN seq :
                       /\ \A j \in DOMAIN seq : ScoreGeq(seq[i].score, seq[j].score)
                       /\ \A j \in 1..(i - 1) : ScoreLess(seq[j], seq[i])
             rest == [j \in 1..(Len(seq) - 1) |->
                         IF j < top THEN seq[j] ELSE seq[j + 1]]
         IN  <<seq[top]>> \o SortedReverse(rest)

\* seq[:n]
Take(seq, n) == SubSeq(seq, 1, IF n < Len(seq) THEN n ELSE Len(seq))

\* The selection without the sort
SelectPart_Unsorted(part, threshold, ignore, max_no) ==
    Take(SelectSeq(part, LAMBDA x :
            ScoreGeq(x.score, threshold) /\ x.name \notin ignore), max_no)

\* Lines 196-199: the partial matches that are suggested
SelectPart(part, threshold, ignore, max_no) ==
    Take(SortedReverse(SelectSeq(part, LAMBDA x :
            ScoreGeq(x.score, threshold) /\ x.name \notin ignore)), max_no)

\* Lines 111-124: the rules of a key that are not ignored, and their
\* permissions merged
GroupFiltered(pol, ignore, rutc) == NonIgnored(MappingRules(pol, rutc), 1, ignore)

GroupPermset(pol, ignore, rutc) ==
    LET filtered_rules == GroupFiltered(pol, ignore, rutc)
    IN  UNION {PermWords(filtered_rules[k].rule.var) : k \in DOMAIN filtered_rules}

\* Lines 109-110 and 127-128: the key is passed over
GroupSkipped(pol, ignore, rutc) ==
    \/ rutc[1] \notin SUPPORTED_RULE_TYPES
    \/ GroupFiltered(pol, ignore, rutc) = <<>>
    \/ GroupPermset(pol, ignore, rutc) = {}

\* Lines 107-208: one round of "for r_up_to_class in policy.mapping.rules";
\* full is the winner in the order "for x in winner" yields it
GroupSuggestions(pol, ignore, defs, usages, d, order, conf, sugs, rutc, full) ==
    LET rules == MappingRules(pol, rutc)
        filtered_rules == NonIgnored(rules, 1, ignore)
        permset == UNION {PermWords(filtered_rules[k].rule.var) :
                             k \in DOMAIN filtered_rules}
        f == fit(d, order, permset)
        w == WinnerLoop(defs, usages, f.winner, filtered_rules, 1)
        suggestion(x) == GlobalMacroSuggestion(x.name, x.values, filtered_rules,
                                               x.score, rutc, permset)
        kept == SelectSeq(full, LAMBDA x : x \in w.winner /\ x.name \notin conf.ignore)
        sgs == SelectPart(f.part, conf.threshold, conf.ignore, conf.max_no)
        after_winner == IF f.winner # {} /\ w.suggest_this
                        THEN AddSuggestions(sugs, [k \in DOMAIN kept |-> suggestion(kept[k])])
                        ELSE sugs
    IN  IF f.part # <<>> /\ PartAllowed(usages, filtered_rules)
        THEN AddSuggestions(after_winner, [k \in DOMAIN sgs |-> suggestion(sgs[k])])
        ELSE after_winner

\* The suggested usage that leaves out the permissions no macro covers
SuggestedUsage_NoExtra(lst) ==
    IF Len(lst) > 1
    THEN [r_up_to_class |-> lst[1].applies_to, braces |-> TRUE,
          names |-> [k \in DOMAIN lst |-> lst[k].name], extra |-> {}]
    ELSE [r_up_to_class |-> lst[1].applies_to, braces |-> FALSE,
          names |-> <<lst[1].name>>, extra |-> {}]

\* Lines 227-243 and 249-265: the suggested usage of the macros of a list
SuggestedUsage(lst) ==
    LET permset == UNION {lst[k].macro_perms : k \in DOMAIN lst}
        extra_perms == lst[1].original_permset \ permset
    IN  IF Len(lst) > 1 \/ extra_perms # {}
        THEN [r_up_to_class |-> lst[1].applies_to, braces |-> TRUE,
              names |-> [k \in DOMAIN lst |-> lst[k].name], extra |-> extra_perms]
        ELSE [r_up_to_class |-> lst[1].applies_to, braces |-> FALSE,
              names |-> <<lst[1].name>>, extra |-> {}]

NoUsage == [r_up_to_class |-> None, braces |-> FALSE, names |-> <<>>, extra |-> {}]

\* Lines 211-267: what is printed for one entry of suggestions
PrintedBlock(filelines, sgs) ==
    LET full == SelectSeq(sgs, LAMBDA x : ScoreIsOne(x))
        part == SortedReverse(SelectSeq(sgs, LAMBDA x : ~ScoreIsOne(x)))
    IN  [filelines |-> filelines,
         full |-> [k \in DOMAIN full |-> full[k].name],
         full_usage |-> IF full # <<>> THEN SuggestedUsage(full) ELSE NoUsage,
         part |-> [k \in DOMAIN part |-> [name |-> part[k].name, score |-> part[k].score]],
         part_usage |-> IF part # <<>> THEN SuggestedUsage(part) ELSE NoUsage]

(***************************************************************************)
(* The macro suggestions: main of global_macros runs over a policy, its    *)
(* macro definitions and usages, and a configuration, one key of the rule  *)
(* mapping at a time, then prints one entry of suggestions at a time.      *)
(***************************************************************************)
GlobalMacro(exp) == [file_defined |-> "global_macros", exp |-> exp]
TeMacro == [file_defined |-> "te_macros", exp |-> <<"domain_auto_trans">>]

\* The macro definitions of the policies of the model
Catalogs ==
    { [n \in {"r_file", "w_file", "te_m"} |->
          CASE n = "r_file" -> GlobalMacro(<<"{", "read", "open", "}">>)
            [] n = "w_file" -> GlobalMacro(<<"{", "write", "open", "}">>)
            [] OTHER -> TeMacro],
      [n \in {"r_file", "w_file", "rw_file", "te_m"} |->
          CASE n = "r_file" -> GlobalMacro(<<"{", "read", "open", "}">>)
            [] n = "w_file" -> GlobalMacro(<<"write">>)
            [] n = "rw_file" -> GlobalMacro(<<"{", "read", "open", "write", "}">>)
            [] OTHER -> TeMacro],
      [n \in {"r_file", "w_file", "ro_file", "te_m"} |->
          CASE n = "r_file" -> GlobalMacro(<<"{", "read", "open", "}">>)
            [] n = "w_file" -> GlobalMacro(<<"{", "write", "open", "}">>)
            [] n = "ro_file" -> GlobalMacro(<<"{", "open", "read", "}">>)
            [] OTHER -> TeMacro] }

\* The macro usages of the policies of the model
Usages ==
    { [name |-> "r_file", fileline |-> <<"/", "d", ":", "7">>],
      [name |-> "w_file", fileline |-> <<"/", "d", ":", "8">>],
      [name |-> "te_m", fileline |-> <<"/", "d", ":", "7">>] }

Thresholds == {<<1, 2>>, <<2, 3>>}

SuggestInit ==
    /\ MatchIdle
    /\ FitIdle
    /\ phase = "suggest"
    /\ policy \in {[valid |-> TRUE, rules |-> pol \cup {1}] : pol \in SUBSET SuggestRules}
                   \cup {[valid |-> FALSE, rules |-> {}]}
    /\ RULE_IGNORE_PATHS \in {{}, {IgnoredDir}}
    /\ macro_defs \in Catalogs
    /\ macro_usages \in SUBSET Usages
    /\ USAGES_IGNORE \in {{}, {"w_file"}}
    /\ SUGGESTION_THRESHOLD \in Thresholds
    /\ SUGGESTION_MAX_NO \in {1, 2}
    /\ RULES_TUPLES = <<>>
    /\ LOG = "None"
    /\ MAPPER = "None"
    /\ FULL_IGNORE_PATHS = "None"
    /\ NON_IGNORED_MAPPING = <<>>
    /\ loop = [t |-> 0, placeholder_sub |-> FALSE, rules |-> <<>>, r |-> 0]
    /\ missing_rules = <<>>
    /\ output = <<>>
    /\ error = "None"
    /\ macrousages_dict = <<>>
    /\ suggestions = <<>>
    /\ todo = [keys |-> <<>>, next |-> 1]

\* Lines 72-106 of main: the policy is checked, the dictionaries are built
\* and the set fitter is initialised
Suggest_Enter ==
    /\ phase = "suggest"
    /\ IF ~policy.valid
       THEN /\ phase' = "raised"
            /\ error' = "ValueError: Invalid policy"
            /\ UNCHANGED <<FULL_IGNORE_PATHS, sf_d, sf_order, macrousages_dict, todo>>
       ELSE /\ phase' = "groups"
            /\ FULL_IGNORE_PATHS' = {PathJoin(BaseDir, q) : q \in RULE_IGNORE_PATHS}
            /\ sf_d' = MacrosetDict(macro_defs)
            /\ sf_order' \in Orders(DOMAIN MacrosetDict(macro_defs))
            /\ macrousages_dict' = MacrousagesDict(macro_usages)
            /\ \E o \in Orders(MappingKeys(policy.rules)) :
                  todo' = [keys |-> o, next |-> 1]
            /\ UNCHANGED error
    /\ UNCHANGED <<policy, RULES_TUPLES, RULE_IGNORE_PATHS, LOG, MAPPER,
                   NON_IGNORED_MAPPING, loop, missing_rules, output,
                   macro_defs, macro_usages, USAGES_IGNORE, SUGGESTION_THRESHOLD,
                   SUGGESTION_MAX_NO, suggestions, sf_s, sf_ret, matchVars>>

\* Lines 107-208 of main: one round of "for r_up_to_class in ..."
Suggest_Group ==
    /\ phase = "groups"
    /\ todo.next <= Len(todo.keys)
    /\ LET rutc == todo.keys[todo.next]
           permset == GroupPermset(policy.rules, FULL_IGNORE_PATHS, rutc)
           conf == [ignore |-> USAGES_IGNORE, threshold |-> SUGGESTION_THRESHOLD,
                    max_no |-> SUGGESTION_MAX_NO]
       IN  /\ todo' = [todo EXCEPT !.next = todo.next + 1]
           /\ IF GroupSkipped(policy.rules, FULL_IGNORE_PATHS, rutc)
              THEN UNCHANGED <<sf_s, sf_ret, suggestions>>
              ELSE /\ sf_s' = permset
                   /\ sf_ret' = fit(sf_d, sf_order, permset)
                   /\ \E full \in Orders(sf_ret'.winner) :
                         suggestions' =
                            GroupSuggestions(policy.rules, FULL_IGNORE_PATHS,
                                             macro_defs, macrousages_dict,
                                             sf_d, sf_order, conf,
                                             suggestions, rutc, full)
    /\ UNCHANGED <<phase, sf_d, sf_order, matchVars, checkVars, macro_defs,
                   macro_usages, USAGES_IGNORE, SUGGESTION_THRESHOLD,
                   SUGGESTION_MAX_NO, macrousages_dict>>

\* Lines 210-267 of main: one round of "for filelines, sgs in ..."
Suggest_Print ==
    /\ phase = "groups"
    /\ todo.next > Len(todo.keys)
    /\ \E filelines \in DOMAIN suggestions :
          /\ \A i \in DOMAIN output : output[i].filelines # filelines
          /\ output' = Append(output, PrintedBlock(filelines, suggestions[filelines]))
    /\ UNCHANGED <<phase, policy, RULES_TUPLES, RULE_IGNORE_PATHS, LOG, MAPPER,
                   FULL_IGNORE_PATHS, NON_IGNORED_MAPPING, loop, missing_rules,
                   error, matchVars, fitVars, suggestVars>>

\* main returns once every entry is printed
Suggest_Return ==
    /\ phase = "groups"
    /\ todo.next > Len(todo.keys)
    /\ \A filelines \in DOMAIN suggestions :
          \E i \in DOMAIN output : output[i].filelines = filelines
    /\ phase' = "returned"
    /\ UNCHANGED <<matchVars, fitVars, checkVars, suggestVars>>

SuggestNext == Suggest_Enter \/ Suggest_Group \/ Suggest_Print \/ Suggest_Return

SpecSuggest == SuggestInit /\ [][SuggestNext]_vars

(***************************************************************************)
(* The two entry points: either main is called on a policy object, valid   *)
(* or not.                                                                 *)
(***************************************************************************)
EntryInit ==
    \/ CheckInit /\ Len(RULES_TUPLES) = 1
    \/ SuggestInit /\ macro_usages = {} /\ USAGES_IGNORE = {}

EntryNext == CheckNext \/ SuggestNext

SpecEntry == EntryInit /\ [][EntryNext]_vars

(***************************************************************************)
(* Properties of the companion-rule check                                  *)
(***************************************************************************)
\* C3: a found rule whose fields each match the trigger but give one
\* argument two values never ends the run with an error.
C3_InconsistentNeverFatal ==
    ~(/\ phase = "raised"
      /\ policy.valid
      /\ mres.ok /\ mres.matches # <<>>
      /\ res.status = "ValueError")

\* The mapped rules of the policy with the signature of txt
SameSignature(pol, txt) ==
    {i \in pol : /\ Universe[i].rule.kind = txt.kind
                 /\ Universe[i].rule.source = txt.source
                 /\ Universe[i].rule.target = txt.target
                 /\ Universe[i].rule.tclass = txt.tclass}

\* The rule is in the policy: for an AV rule the mapped rules of its
\* signature grant its permissions, a type_transition is mapped as it is
Satisfied(pol, txt) ==
    IF txt.kind \in AVRULES
    THEN /\ SameSignature(pol, txt) # {}
         /\ PermWords(txt.var) \subseteq
                UNION {PermWords(Universe[i].rule.var) : i \in SameSignature(pol, txt)}
    ELSE \E i \in pol : Universe[i].rule = txt

\* The companions of tuple t from index k on, with the bindings put in,
\* that are of a supported kind and are not in the policy
RECURSIVE Unsatisfied(_, _, _, _)
Unsatisfied(pol, t, k, bindings) ==
    IF k > Len(t) THEN <<>>
    ELSE LET nec == substitute_args(t[k], bindings)
         IN  (IF t[k].kind \in ONLY_MAP_RULES /\ ~Satisfied(pol, nec)
              THEN <<nec>> ELSE <<>>)
                 \o Unsatisfied(pol, t, k + 1, bindings)

\* C8: each round of the loop over the found triggers leaves in
\* missing_rules, in tuple order, exactly the companions (with the trigger's
\* bindings put in) that the rule mapping does not satisfy, and prints one
\* report, the trigger with that list, exactly when the list is not empty.
C8_MissingCompanions ==
    [][phase = "rules" /\ phase' # "raised" =>
        LET t == RULES_TUPLES[loop.t]
            r == loop.rules[loop.r]
            bindings == IF loop.placeholder_sub THEN res'.args ELSE <<>>
            expected == Unsatisfied(policy.rules, t, 2, bindings)
        IN  /\ [k \in DOMAIN missing_rules' |-> missing_rules'[k].rule] = expected
            /\ IF expected = <<>>
               THEN output' = output
               ELSE /\ Len(output') = Len(output) + 1
                    /\ output'[Len(output')].missing = missing_rules'
                    /\ output'[Len(output')].rule =
                          (IF loop.placeholder_sub THEN CompiledText(r) ELSE r)
                    /\ SubSeq(output', 1, Len(output)) = output]_vars

\* The example of the configuration file: only the type_transition and the
\* execute rule are in the policy, the two other rules are reported
C8_Witness ==
    /\ phase = "returned"
    /\ RULES_TUPLES = <<TupDomainTrans>>
    /\ policy.rules = {1, 2}
    /\ Len(output) = 1
    /\ output[1].rule = TEText(TypeA, TypeB, ClassProcess, TypeAB)
    /\ [k \in DOMAIN output[1].missing |-> output[1].missing[k].rule] =
          << AVText("allow", TypeAB, TypeB, ClassFile, <<"entrypoint">>),
             AVText("allow", TypeA, TypeAB, ClassProcess, <<"transition">>) >>

\* C9: every report is about a trigger that is in the policy.
C9_TriggerInPolicy ==
    \A i \in DOMAIN output : Satisfied(policy.rules, output[i].rule)

\* The rules named in a list of missing rules
MissingTexts(lst) == {lst[k].rule : k \in DOMAIN lst}

\* C14 as claimed: when the trigger of a tuple is of an unsupported kind the
\* other rules of the tuple are still checked, so one that is not in the
\* policy is reported.
C14_TriggerAsClaimed ==
    phase = "returned" =>
        \A j \in DOMAIN RULES_TUPLES :
            LET t == RULES_TUPLES[j]
            IN  Len(t) >= 2 /\ t[1].kind \notin ONLY_MAP_RULES =>
                  \A k \in 2..Len(t) :
                      /\ t[k].kind \in ONLY_MAP_RULES
                      /\ ~HasPlaceholder(t[k])
                      /\ ~Satisfied(policy.rules, t[k])
                      => \E i \in DOMAIN output :
                            t[k] \in MissingTexts(output[i].missing)

\* C14: a tuple whose trigger is of an unsupported kind is passed over as a
\* whole, nothing is printed for it and the loop goes on with the next
\* tuple; a companion of an unsupported kind is never reported, and the
\* other companions of its tuple are reported exactly when the policy does
\* not hold them.
C14_Unsupported ==
    [][/\ (/\ phase = "tuples" /\ loop.t <= Len(RULES_TUPLES)
           /\ RULES_TUPLES[loop.t][1].kind \notin ONLY_MAP_RULES)
          => /\ output' = output
             /\ phase' = "tuples"
             /\ loop'.t = loop.t + 1
       /\ (phase = "rules" /\ phase' # "raised") =>
             LET t == RULES_TUPLES[loop.t]
                 bindings == IF loop.placeholder_sub THEN res'.args ELSE <<>>
             IN  \A k \in 2..Len(t) :
                   LET nec == substitute_args(t[k], bindings)
                   IN  IF t[k].kind \notin ONLY_MAP_RULES
                       THEN nec \notin MissingTexts(missing_rules')
                       ELSE nec \in MissingTexts(missing_rules')
                               <=> ~Satisfied(policy.rules, nec)]_vars

\* A tuple with an unsupported trigger was passed over although its
\* companion is not in the policy, and the tuple after it, which has an
\* unsupported companion, got its type_transition reported
C14_Witness ==
    /\ phase = "returned"
    /\ RULES_TUPLES = <<TupUnsupportedTrigger, TupUnsupportedCompanion>>
    /\ ~Satisfied(policy.rules, TupUnsupportedTrigger[2])
    /\ Len(output) = 1
    /\ MissingTexts(output[1].missing) =
          {TEText(TypeA, TypeB, ClassProcess, TypeAB)}

\* C15: on an object that is not a policy either main ends with the error
\* "Invalid policy" at once: it never gets to a tuple, a query, a group or
\* a report, and LOG, MAPPER, FULL_IGNORE_PATHS and NON_IGNORED_MAPPING are
\* what they were.
C15_InvalidPolicyRejected ==
    ~policy.valid =>
        /\ phase \in {"call", "suggest", "raised"}
        /\ phase = "raised" => error = "ValueError: Invalid policy"
        /\ phase # "raised" => error = "None"
        /\ LOG = "None" /\ MAPPER = "None" /\ FULL_IGNORE_PATHS = "None"
        /\ NON_IGNORED_MAPPING = <<>>
        /\ output = <<>> /\ missing_rules = <<>>
        /\ tmpl = [kind |-> "none"] /\ rule = NoRule
        /\ sf_d = <<>> /\ sf_s = {}
        /\ macrousages_dict = <<>> /\ suggestions = <<>>

\* main of global_macros has rejected an object that is not a policy
C15_Witness ==
    /\ ~policy.valid
    /\ phase = "raised"
    /\ macro_defs \in Catalogs

\* The permissions a line of the report names: those of the annotation
\* ': missing "..."', or those of the rule when the line is the rule alone
NamedPerms(e) == IF e.annotated THEN e.missing ELSE PermWords(e.rule.var)

\* The permissions of the mapped rules of the signature of txt, merged
UnionOfMapped(pol, txt) ==
    UNION {PermWords(Universe[i].rule.var) : i \in SameSignature(pol, txt)}

\* C16: in each round an AV companion is put on the list of missing rules
\* exactly when the merged permissions of the mapped rules of its signature
\* (none when the signature is not mapped) do not include its permissions,
\* and its line names exactly the permissions that are not included.
C16_AVCompanion ==
    [][(phase = "rules" /\ phase' # "raised") =>
        LET t == RULES_TUPLES[loop.t]
            bindings == IF loop.placeholder_sub THEN res'.args ELSE <<>>
        IN  \A k \in 2..Len(t) :
              t[k].kind \in AVRULES =>
                LET nec == substitute_args(t[k], bindings)
                    expected == PermWords(nec.var)
                    union == UnionOfMapped(policy.rules, nec)
                    lines == {i \in DOMAIN missing_rules' :
                                 missing_rules'[i].rule = nec}
                IN  /\ lines # {} <=> ~(expected \subseteq union)
                    /\ \A i \in lines :
                          /\ NamedPerms(missing_rules'[i]) = expected \ union
                          /\ missing_rules'[i].annotated <=>
                                SameSignature(policy.rules, nec) # {}]_vars

\* A companion with two permissions is reported for the one permission the
\* mapped rules of its signature do not grant
C16_Witness ==
    \E i \in DOMAIN missing_rules :
        /\ missing_rules[i].annotated
        /\ PermWords(missing_rules[i].rule.var) = {"execute", "read"}
        /\ missing_rules[i].missing = {"read"}

\* The mapped rules of the policy a rule of the compiled policy is made of
Contributing(pol, x) == {i \in pol : Compiled(pol, i) = x}

Ignored(i) == StartsWithAny(Universe[i].fileline, FULL_IGNORE_PATHS)

\* C17: a rule found for a trigger is kept only if one of the lines it is
\* made of is not under an ignored path, and an AV rule only if the
\* permissions of its lines that are not ignored include those the trigger
\* requires.
C17_IgnoredTriggerDropped ==
    phase = "rules" /\ loop.placeholder_sub =>
        \A k \in DOMAIN loop.rules :
            LET x == loop.rules[k]
                lines == Contributing(policy.rules, x)
            IN  /\ \E i \in lines : ~Ignored(i)
                /\ x.ruletype \in AVRULES =>
                      RegexPerms(tmpl) \subseteq
                         UNION {PermWords(Universe[i].rule.var) :
                                   i \in {j \in lines : ~Ignored(j)}}

(***************************************************************************)
(* Properties of the macro suggestions                                     *)
(***************************************************************************)
\* The macro is invoked at one of the lines
InvokedAt(name, filelines) ==
    \E u \in macro_usages : u.name = name /\ u.fileline \in filelines

\* C10: no suggestion of a group, full or partial, stored or printed, names
\* a macro that is invoked at one of the file:lines the group is made of.
C10_NoDuplicateSuggestion ==
    /\ \A key \in DOMAIN suggestions : \A k \in DOMAIN suggestions[key] :
          ~InvokedAt(suggestions[key][k].name, key)
    /\ phase \in {"groups", "returned"} =>
          \A i \in DOMAIN output :
             /\ \A k \in DOMAIN output[i].full :
                   ~InvokedAt(output[i].full[k], output[i].filelines)
             /\ \A k \in DOMAIN output[i].part :
                   ~InvokedAt(output[i].part[k].name, output[i].filelines)

\* A full match is printed for lines at one of which another macro of the
\* winner is invoked already
C10_Witness ==
    /\ phase = "returned"
    /\ \E i \in DOMAIN output : \E u \in macro_usages :
          /\ output[i].full # <<>>
          /\ u.fileline \in output[i].filelines
          /\ sf_s = suggestions[output[i].filelines][1].original_permset
          /\ u.name \in {x.name : x \in sf_ret.winner}
          /\ output[i].full[1] \in {x.name : x \in sf_ret.winner}

\* C11: the subset SetFitter.fit selects for a group is the same whatever
\* the order in which the catalog is iterated, so that two runs on the same
\* inputs suggest the same macros.
C11_FitOrderIndependent ==
    phase = "groups" =>
        \A o \in Orders(DOMAIN sf_d) :
            {x.name : x \in fit(sf_d, o, sf_s).winner} =
                {x.name : x \in sf_ret.winner}

\* The configuration main reads
Conf ==
    [ignore |-> USAGES_IGNORE, threshold |-> SUGGESTION_THRESHOLD,
     max_no |-> SUGGESTION_MAX_NO]

\* The suggestions main holds after the rounds j..upto of its loop when run
\* with the ignored paths ignore on the policy, macros, usages and
\* configuration of the state, starting from sugs
RECURSIVE RunGroups(_, _, _, _)
RunGroups(ignore, j, upto, sugs) ==
    IF j > upto THEN sugs
    ELSE LET rutc == todo.keys[j]
             w == fit(sf_d, sf_order, GroupPermset(policy.rules, ignore, rutc)).winner
         IN  RunGroups(ignore, j + 1, upto,
                 IF GroupSkipped(policy.rules, ignore, rutc) THEN sugs
                 ELSE GroupSuggestions(policy.rules, ignore, macro_defs,
                                       macrousages_dict, sf_d, sf_order, Conf,
                                       sugs, rutc, SetToSeq(w)))

\* The suggestions held for a signature
StoredFor(rutc, sugs) ==
    UNION {{sugs[key][i] : i \in {k \in DOMAIN sugs[key] :
                                     sugs[key][k].applies_to = rutc}} :
              key \in DOMAIN sugs}

\* The path is a prefix of none of the lines of the rules of the signature
ContainsNoLine(path, rutc) ==
    \A i \in policy.rules :
        rule_factory(Universe[i].rule).up_to_class = rutc =>
            ~IsPrefix(path, Universe[i].fileline)

\* C12: with one more ignored path that is a prefix of none of the lines of
\* a signature, the rules retained for the signature, its merged
\* permissions and the suggestions held for it are what they are without.
C12_IgnoreIdempotent ==
    phase = "groups" =>
        \A q \in {IgnoredDir} \ RULE_IGNORE_PATHS : \A j \in 1..(todo.next - 1) :
            LET path == PathJoin(BaseDir, q)
                more == FULL_IGNORE_PATHS \cup {path}
                rutc == todo.keys[j]
            IN  ContainsNoLine(path, rutc) =>
                  /\ GroupFiltered(policy.rules, more, rutc) =
                        GroupFiltered(policy.rules, FULL_IGNORE_PATHS, rutc)
                  /\ GroupPermset(policy.rules, more, rutc) =
                        GroupPermset(policy.rules, FULL_IGNORE_PATHS, rutc)
                  /\ StoredFor(rutc, RunGroups(more, 1, todo.next - 1, <<>>)) =
                        StoredFor(rutc, suggestions)

\* The suggestions main holds, of all lines
Stored ==
    UNION {{suggestions[key][i] : i \in DOMAIN suggestions[key]} :
              key \in DOMAIN suggestions}

\* C13 as claimed: the permissions recorded for the macro of a suggestion,
\* full or partial, are within the original permission set.
C13_CoveredAsClaimed ==
    \A g \in Stored : g.macro_perms \subseteq g.original_permset

\* C13: the permissions recorded for the macro of a full match are within
\* the original permission set; those recorded for a partial match are all
\* the permissions of the macro, of which the share given by the score is
\* in the original set, and they are within it only if the macro has none.
C13_Covered ==
    \A g \in Stored :
        IF g.score[1] = g.score[2]
        THEN g.macro_perms \subseteq g.original_permset
        ELSE /\ Cardinality(g.macro_perms \cap g.original_permset) * g.score[2]
                  = g.score[1] * Cardinality(g.macro_perms)
             /\ g.macro_perms \subseteq g.original_permset => g.macro_perms = {}

\* A full and a partial match are held, the partial with permissions the
\* original set has not, the full with fewer than the original set
C13_Witness ==
    /\ \E g \in Stored : /\ g.score[1] = g.score[2]
                         /\ g.macro_perms # g.original_permset
    /\ \E g \in Stored : /\ g.score[1] # g.score[2]
                         /\ ~(g.macro_perms \subseteq g.original_permset)

\* A macro that is not a global macro is used at one of the lines
ForeignAt(filelines) ==
    \E u \in macro_usages :
        /\ u.fileline \in filelines
        /\ macro_defs[u.name].file_defined # "global_macros"

\* The lines of the rules retained for a signature
GroupLines(rutc) ==
    LET filtered_rules == GroupFiltered(policy.rules, FULL_IGNORE_PATHS, rutc)
    IN  {filtered_rules[k].fileline : k \in DOMAIN filtered_rules}

\* C18: no full match is held or printed for lines at one of which a macro
\* of another family is used; every full match held or printed has score 1,
\* comes from the catalog with all its permissions in the original set, and
\* is not a macro the user ignores.
C18_FullMatches ==
    /\ \A g \in Stored :
          g.score[1] = g.score[2] =>
             /\ ~ForeignAt(g.filelines)
             /\ g.name \notin USAGES_IGNORE
             /\ g.name \in DOMAIN sf_d /\ sf_d[g.name] = g.macro_perms
             /\ g.macro_perms \subseteq g.original_permset
    /\ phase \in {"groups", "returned"} =>
          \A i \in DOMAIN output :
             /\ output[i].full # <<>> => ~ForeignAt(output[i].filelines)
             /\ \A k \in DOMAIN output[i].full :
                   /\ output[i].full[k] \notin USAGES_IGNORE
                   /\ \E g \in Stored : /\ g.name = output[i].full[k]
                                        /\ g.filelines = output[i].filelines
                                        /\ g.score[1] = g.score[2]

\* A signature with a winner got no full match because of a macro of another
\* family at one of its lines, while another signature got one
C18_Witness ==
    /\ phase = "returned"
    /\ \E j \in DOMAIN todo.keys :
          /\ ~GroupSkipped(policy.rules, FULL_IGNORE_PATHS, todo.keys[j])
          /\ fit(sf_d, sf_order,
                 GroupPermset(policy.rules, FULL_IGNORE_PATHS, todo.keys[j])).winner # {}
          /\ ForeignAt(GroupLines(todo.keys[j]))
    /\ \E i \in DOMAIN output : output[i].full # <<>>

\* A macro is used at one of the lines; a global macro is
UsedAt(filelines) == \E u \in macro_usages : u.fileline \in filelines

GlobalUsedAt(filelines) ==
    \E u \in macro_usages :
        /\ u.fileline \in filelines
        /\ macro_defs[u.name].file_defined = "global_macros"

\* The rounds of the loop done so far that did not pass their key over
Processed ==
    {j \in 1..(todo.next - 1) :
        ~GroupSkipped(policy.rules, FULL_IGNORE_PATHS, todo.keys[j])}

\* The names of the partial matches that pass the threshold, the ignore list
\* and the maximal number, for the signature of round j
SelectedPart(j) ==
    LET sgs == SelectPart(fit(sf_d, sf_order,
                              GroupPermset(policy.rules, FULL_IGNORE_PATHS,
                                           todo.keys[j])).part,
                          SUGGESTION_THRESHOLD, USAGES_IGNORE, SUGGESTION_MAX_NO)
    IN  {sgs[k].name : k \in DOMAIN sgs}

\* A partial match is held under the lines
PartHeld(filelines) ==
    \E g \in Stored : g.filelines = filelines /\ g.score[1] # g.score[2]

\* C19 as claimed: a signature at none of whose lines a global macro is
\* used, and with a partial match that passes the filters, is offered
\* partial matches, whatever other macros are used at its lines.
C19_GatingAsClaimed ==
    phase \in {"groups", "returned"} =>
        \A j \in Processed :
            ~GlobalUsedAt(GroupLines(todo.keys[j])) /\ SelectedPart(j) # {}
                => PartHeld(GroupLines(todo.keys[j]))

\* C19: a partial match is held under the lines of a signature only if no
\* macro at all, global or not, is used at any of them and it passes the
\* filters for a signature of these lines; and when no macro is used at any
\* of the lines, every macro that passes the filters is held under them.
C19_Gating ==
    phase \in {"groups", "returned"} =>
        \A j \in Processed :
            LET filelines == GroupLines(todo.keys[j])
                same == {i \in Processed : GroupLines(todo.keys[i]) = filelines}
            IN  /\ \A g \in Stored :
                      g.filelines = filelines /\ g.score[1] # g.score[2] =>
                         /\ ~UsedAt(filelines)
                         /\ \E i \in same : g.name \in SelectedPart(i)
                /\ ~UsedAt(filelines) =>
                      \A n \in SelectedPart(j) :
                          \E g \in Stored : g.filelines = filelines /\ g.name = n

\* Only a macro of another family is used at the lines of a signature that
\* has a partial match passing the filters, and main returns with none held
C19_Witness ==
    /\ phase = "returned"
    /\ \E j \in Processed :
          /\ ForeignAt(GroupLines(todo.keys[j]))
          /\ ~GlobalUsedAt(GroupLines(todo.keys[j]))
          /\ SelectedPart(j) # {}
          /\ ~PartHeld(GroupLines(todo.keys[j]))

\* The share of the permissions of a catalog entry that the permissions of
\* the signature of round j hold, as <<numerator, denominator>>
Share(n, j) ==
    <<Cardinality(sf_d[n] \cap GroupPermset(policy.rules, FULL_IGNORE_PATHS,
                                            todo.keys[j])),
      Cardinality(sf_d[n])>>

\* The catalog entries that are partial matches for round j, are not ignored
\* and reach the threshold
Eligible(j) ==
    {n \in DOMAIN sf_d :
        /\ Share(n, j)[1] # Share(n, j)[2]
        /\ n \notin USAGES_IGNORE
        /\ ScoreGeq(Share(n, j), SUGGESTION_THRESHOLD)}

\* The sets of the K best of the eligible entries
TopK(j) ==
    {S \in SUBSET Eligible(j) :
        /\ Cardinality(S) = IF Cardinality(Eligible(j)) < SUGGESTION_MAX_NO
                            THEN Cardinality(Eligible(j)) ELSE SUGGESTION_MAX_NO
        /\ \A n \in S : \A e \in Eligible(j) \ S :
              ScoreGeq(Share(n, j), Share(e, j))}

Rendered(u, lst) ==
    LET covered == UNION {lst[k].macro_perms : k \in DOMAIN lst}
        orig == lst[1].original_permset
    IN  /\ u.r_up_to_class = lst[1].applies_to
        /\ IF Len(lst) = 1 /\ orig \subseteq lst[1].macro_perms
           THEN ~u.braces /\ u.names = <<lst[1].name>> /\ u.extra = {}
           ELSE /\ u.braces
                /\ u.names = [k \in DOMAIN lst |-> lst[k].name]
                /\ u.extra = orig \ covered

\* The partial matches held under the lines, in the order they are printed
PrintedPart(i) ==
    [k \in DOMAIN output[i].part |->
        CHOOSE g \in Stored : /\ g.filelines = output[i].filelines
                              /\ g.score[1] # g.score[2]
                              /\ g.name = output[i].part[k].name]

\* C21: for every printed group, the replacement expression of its full
\* matches, and that of its partial matches, is the signature followed by
\* the bare name of the macro when one macro is listed and the original
\* permissions are all among those of the macro, and otherwise by a set in
\* braces of every listed name and exactly the original permissions that
\* the listed macros together do not hold; an empty list has no expression.
C21_Rendering ==
    \A i \in DOMAIN output :
        LET sgs == suggestions[output[i].filelines]
            full == SelectSeq(sgs, LAMBDA x : x.score[1] = x.score[2])
            npart == Cardinality({k \in DOMAIN sgs : sgs[k].score[1] # sgs[k].score[2]})
        IN  /\ Len(output[i].part) = npart
            /\ IF full = <<>> THEN output[i].full_usage = NoUsage
               ELSE Rendered(output[i].full_usage, full)
            /\ IF npart = 0 THEN output[i].part_usage = NoUsage
               ELSE Rendered(output[i].part_usage, PrintedPart(i))

\* A group is printed with a full match in braces with a permission left
\* over and a single partial match as a bare name
C21_Witness ==
    /\ phase = "returned"
    /\ \E i \in DOMAIN output :
          /\ output[i].full_usage.braces
          /\ Len(output[i].full_usage.names) = 1
          /\ output[i].full_usage.extra # {}
          /\ ~output[i].part_usage.braces
          /\ output[i].part_usage.names # <<>>

\* C24: the suggestions held under one set of lines all apply to one
\* signature and have the same original permissions, and the replacement
\* expression printed for the full matches of a group grants, through the
\* listed macros and the listed left-over permissions, exactly the
\* permissions of every signature that has a suggestion in the group.
C24_GroupHomogeneous ==
    /\ \A g \in Stored : \A h \in Stored :
          g.filelines = h.filelines =>
             /\ g.applies_to = h.applies_to
             /\ g.original_permset = h.original_permset
    /\ \A i \in DOMAIN output :
          output[i].full # <<>> =>
             \A g \in Stored :
                 g.filelines = output[i].filelines =>
                    UNION {sf_d[output[i].full_usage.names[k]] :
                              k \in DOMAIN output[i].full_usage.names}
                        \cup output[i].full_usage.extra
                      = GroupPermset(policy.rules, FULL_IGNORE_PATHS, g.applies_to)

(***************************************************************************)
(* Properties of SetFitter                                                 *)
(***************************************************************************)
Names(seq) == {seq[i].name : i \in DOMAIN seq}

\* |target - union of the sets named in W|
Residual(W) == Cardinality(sf_s \ UNION {sf_d[n] : n \in W})

\* C6: when some entry scores 1 the winner is a non-empty set of such
\* entries that leaves the smallest residual, and no set of such entries
\* with that residual has fewer members.
C6_FitOptimal ==
    phase = "fitted" /\ sf_ret.ones # <<>> =>
        LET exact == Names(sf_ret.ones)
            W == {n \in exact : \E x \in sf_ret.winner : x.name = n}
        IN  /\ W # {}
            /\ Cardinality(W) = Cardinality(sf_ret.winner)
            /\ sf_ret.winner \subseteq Range(sf_ret.ones)
            /\ \A V \in SUBSET exact \ {{}} :
                  /\ Residual(W) <= Residual(V)
                  /\ Residual(V) = Residual(W) => Cardinality(W) <= Cardinality(V)

C6_Witness ==
    /\ phase = "fitted"
    /\ sf_s = {"read", "write", "open"}
    /\ sf_d = [n \in MacroNames |->
                 CASE n = "r_file" -> {"read", "open"}
                   [] n = "w_file" -> {"write", "open"}
                   [] n = "rw_file" -> {"read", "write", "open"}]
    /\ Names(sf_ret.ones) = MacroNames
    /\ {x.name : x \in sf_ret.winner} = {"rw_file"}

\* The permissions the entries named in V hold together
Together(V) == UNION {sf_d[n] : n \in V}

\* C23: the winner is empty exactly when no entry scores 1; a winner that
\* is not empty is made of entries that score 1, holds together the
\* permissions all entries that score 1 hold together, all of them in the
\* target, and no set of fewer entries that score 1 holds the same.
C23_WinnerCoverage ==
    phase = "fitted" =>
        LET exact == {x.name : x \in {y \in Range(sf_ret.ones) \cup Range(sf_ret.part) :
                                         y.score[1] = y.score[2]}}
            W == {x.name : x \in sf_ret.winner}
            held == UNION {x.values : x \in sf_ret.winner}
        IN  /\ sf_ret.winner = {} <=> exact = {}
            /\ sf_ret.winner # {} =>
                  /\ W \subseteq exact
                  /\ Cardinality(W) = Cardinality(sf_ret.winner)
                  /\ held = Together(W)
                  /\ held = Together(exact)
                  /\ held \subseteq sf_s
                  /\ \A V \in SUBSET exact :
                        Cardinality(V) < Cardinality(W) => Together(V) # held

\* Three entries score 1, two of them are needed to hold what the three
\* hold, and a permission of the target is left over
C23_Witness ==
    /\ phase = "fitted"
    /\ Len(sf_ret.ones) = 3
    /\ Cardinality(sf_ret.winner) = 2
    /\ UNION {x.values : x \in sf_ret.winner} # sf_s

\* The score computed for entry n, and its bucket
Entry(n) ==
    CHOOSE x \in Range(sf_ret.ones) \cup Range(sf_ret.part) : x.name = n

\* score = |P /\ T| / |P|, within [0,1]
ScoreIsRatio(n) ==
    LET sc == Entry(n).score
    IN  /\ sc[2] > 0 /\ 0 <= sc[1] /\ sc[1] <= sc[2]
        /\ sc[1] * Cardinality(sf_d[n]) = Cardinality(sf_d[n] \cap sf_s) * sc[2]

Bucketed ==
    /\ Names(sf_ret.ones) \cap Names(sf_ret.part) = {}
    /\ Names(sf_ret.ones) \cup Names(sf_ret.part) = MacroNames
    /\ Len(sf_ret.ones) + Len(sf_ret.part) = Cardinality(MacroNames)
    /\ \A x \in Range(sf_ret.ones) : ScoreIsOne(x)
    /\ \A x \in Range(sf_ret.part) : x.score[1] < x.score[2]

\* C7 as claimed: every entry's score is |P /\ T| / |P| in [0,1], the entry
\* is in the exact bucket exactly when P is a subset of T, also for an empty
\* P, and every other entry is in the partial list with a score below 1.
C7_ScoreAsClaimed ==
    phase = "fitted" =>
        /\ Bucketed
        /\ \A n \in MacroNames :
              /\ ScoreIsRatio(n)
              /\ n \in Names(sf_ret.ones) <=> sf_d[n] \subseteq sf_s

\* C7 amended: as claimed for a non-empty P; an entry whose P is empty
\* keeps score 0 and is in the partial list.
C7_Score ==
    phase = "fitted" =>
        /\ Bucketed
        /\ \A n \in MacroNames :
              /\ ScoreIsRatio(n)
              /\ sf_d[n] # {} =>
                    (n \in Names(sf_ret.ones) <=> sf_d[n] \subseteq sf_s)
              /\ sf_d[n] = {} =>
                    n \in Names(sf_ret.part) /\ Entry(n).score[1] = 0

C7_Witness ==
    /\ phase = "fitted"
    /\ \E n, e, p \in MacroNames :
          /\ sf_d[e] = {} /\ e \in Names(sf_ret.part)
          /\ sf_d[n] # {} /\ sf_d[n] \subseteq sf_s /\ n \in Names(sf_ret.ones)
          /\ sf_d[p] \cap sf_s # {} /\ ~(sf_d[p] \subseteq sf_s)
          /\ p \in Names(sf_ret.part) /\ Entry(p).score[1] > 0

(***************************************************************************)
(* Properties of ArgExtractor                                              *)
(***************************************************************************)
Extracted == phase \in {"instance", "extracted"}

\* The text the regexes of the template's blocks capture in the rule, one
\* entry per placeholder occurrence, in the order of ArgsOf
RECURSIVE FoundIn(_, _)
FoundIn(blks, texts) ==
    IF blks = <<>> THEN <<>>
    ELSE ReMatch(RegexOf(Head(blks)), Head(texts)).groups
             \o FoundIn(Tail(blks), Tail(texts))

RuleTexts(t, r) ==
    <<r.source, r.target, r.tclass>>
        \o (IF t.kind \in AVRULES THEN <<>> ELSE <<r.default>>)
        \o (IF t.nblocks = 6 THEN <<r.filename>> ELSE <<>>)

Found(t, r) == FoundIn(TextBlocks(t), RuleTexts(t, r))

\* C1: a rule obtained from a template (with at least one placeholder) by
\* substituting values for its placeholders is matched, and extract
\* returns every placeholder with the value substituted for it.
C1_RoundTrip ==
    phase = "instance" /\ PlaceholdersOf(tmpl) # {} =>
        /\ res.status = "ok"
        /\ \A p \in PlaceholdersOf(tmpl) :
              /\ ArgName(p) \in DOMAIN res.args
              /\ res.args[ArgName(p)] = subst[p]

\* C2: a binding map returned by extract gives every placeholder, at each
\* of its occurrences in the template, the text found there in the rule.
C2_ConsistentBinding ==
    Extracted /\ res.status = "ok" =>
        LET args  == ArgsOf(tmpl)
            found == Found(tmpl, rule)
        IN  /\ Len(found) = Len(args)
            /\ \A i \in DOMAIN args :
                  args[i] \in DOMAIN res.args => res.args[args[i]] = found[i]

\* No block of the template holds more than one placeholder
OnePerBlock(t) ==
    \A k \in DOMAIN TextBlocks(t) : Len(FindAll(TextBlocks(t)[k])) <= 1

\* The values extract returned, by placeholder
Bound == [p \in {q \in Placeholders : ArgName(q) \in DOMAIN res.args} |->
             res.args[ArgName(p)]]

\* C22: when extract succeeds on a rule (for a template with at most one
\* placeholder in a block), every block of the template that holds a
\* placeholder, with the returned values put in the place of the
\* placeholders, is the text of that field of the rule; a field that only
\* begins with such a text is not matched.
C22_MatchSound ==
    Extracted /\ res.status = "ok" /\ OnePerBlock(tmpl) =>
        \A k \in DOMAIN TextBlocks(tmpl) :
            LET blk == TextBlocks(tmpl)[k]
            IN  FindAll(blk) # <<>> =>
                  /\ \A i \in DOMAIN blk :
                        blk[i] \in Placeholders => blk[i] \in DOMAIN Bound
                  /\ SubstBlock(blk, Bound) = RuleTexts(tmpl, rule)[k]

\* Kind, source, class, variable block and object name of the rule match
OtherThanTargetMatch(t, r) ==
    /\ r.ruletype = t.kind
    /\ MatchBlock(t.source, r.source).ok
    /\ r.tclass = t.tclass
    /\ IF t.kind \in AVRULES
       THEN {t.var[i] : i \in DOMAIN t.var} \ {"{", "}"} \subseteq r.perms
       ELSE MatchBlock(t.var, r.default).ok
    /\ t.nblocks = 6 =>
          r.filename # None /\ MatchBlock(t.objname, r.filename).ok

\* C4: a template with target "self" matches a rule whose target is not
\* "self" exactly when the rule's source equals its target (the other
\* fields matching); "allow ARG0 self:..." then binds arg0 to that type.
C4_SelfExpansion ==
    Extracted /\ tmpl.target = SelfStr /\ rule.target # SelfStr
              /\ OtherThanTargetMatch(tmpl, rule) =>
        /\ mres.ok <=> rule.source = rule.target
        /\ mres.ok /\ tmpl.source = <<P0>> =>
              res = [status |-> "ok", args |-> [a \in {"arg0"} |-> rule.target]]

C4_Witness ==
    /\ phase = "extracted"
    /\ tmpl.kind = "allow" /\ tmpl.source = <<P0>> /\ tmpl.target = SelfStr
    /\ rule.target # SelfStr /\ rule.source = rule.target
    /\ mres.ok
    /\ res.status = "ok" /\ res.args["arg0"] = rule.source

\* The words of a permission block that are not braces
LiteralPerms(t) == {t.var[i] : i \in DOMAIN t.var} \ {"{", "}"}

\* C5: when kind, source, target and class of an AV template match a rule,
\* match_rule succeeds exactly when the rule's permissions are a superset
\* of the template's literal permissions.
C5_SupersetPerms ==
    Extracted /\ tmpl.kind \in AVRULES /\ rule.ruletype = tmpl.kind
              /\ MatchBlock(tmpl.source, rule.source).ok
              /\ MatchTarget(tmpl.target, rule.source, rule.target).ok
              /\ rule.tclass = tmpl.tclass =>
        (mres.ok <=> LiteralPerms(tmpl) \subseteq rule.perms)

C5_Witness ==
    /\ phase = "extracted"
    /\ tmpl.kind = "allow" /\ LiteralPerms(tmpl) = {"r", "w"}
    /\ rule.perms = {"r", "w", "x"}
    /\ mres.ok

====
